---------------------------- MODULE Spec2Model ----------------------------
(***************************************************************************)
(* Model of the fomod installer of Mopy/bash/boop.py: the dependency       *)
(* evaluator (_assert_dependencies), the layered flag and file stores      *)
(* (ChainMap, _NestedChainMap, _collect_files, _collect_flags), the        *)
(* ordering helper (_ordered_list) and the generator Installer._installer, *)
(* driven by its caller through send() and next().                         *)
(*                                                                         *)
(* Spec is the installer driven by its caller.  SpecFiles drives the two    *)
(* stores alone with arbitrary lists and reads them, SpecDep and SpecLeaf  *)
(* evaluate lone dependencies elements against arbitrary facts.            *)
(*                                                                         *)
(* Python strings are TLA+ strings.  Where the code looks inside a string  *)
(* (LooseVersion parsing, sorting by name, sorting priority keys) the      *)
(* string is read through CharsOf, its sequence of characters.             *)
(***************************************************************************)
EXTENDS Integers, Sequences, FiniteSets, TLC

VARIABLES
    conf,            \* the parsed ModuleConfig.xml (root), fixed at construction
    dest,            \* Installer argument dest: [given, exists]
    game_version,    \* Installer argument game_version: [given, text]
    pc,              \* where the generator _installer is suspended
    flag_maps,       \* self._flag_states.maps, front first
    file_maps,       \* self._collected_files.maps, front first
    index,           \* local index of _installer
    previous_index,  \* local previous_index of _installer (a list used as a stack)
    step_dict,       \* local step_dict: the step handed to the caller
    id_dict,         \* local id_dict: plugin id -> plugin element
    answer,          \* local answer, as received by send()
    uuid_count,      \* number of uuid4() identifiers drawn so far
    out,             \* what the last send()/next() call gave its caller
    hist,            \* history of the run (not program state), see HistInit
    dep_in,          \* the depend argument of a lone _assert_dependencies call
    dep_out,         \* the outcome of that call
    view,            \* what the last read of flag_states or collected_files gave
    list_in,         \* the root argument of a lone _ordered_list call
    list_out         \* the list that call returned

vars == <<conf, dest, game_version, pc, flag_maps, file_maps, index,
          previous_index, step_dict, id_dict, answer, uuid_count, out, hist,
          dep_in, dep_out, view, list_in, list_out>>

-----------------------------------------------------------------------------
(* Strings, characters and their order                                     *)

\* The characters used, in code point order (Python compares str by code point).
Ascii == <<"-", ".", "0", "1", "2", "3", "4", "5", "6", "7", "8", "9",
           "A", "B", "C", "a", "b", "c">>

Ord(c) == CHOOSE i \in 1..Len(Ascii) : Ascii[i] = c

IsDigit(c) == c \in {"0", "1", "2", "3", "4", "5", "6", "7", "8", "9"}

IsLower(c) == c \in {"a", "b", "c"}

DigitVal(c) == Ord(c) - Ord("0")

\* The characters of every string the model looks inside.
CharsOf ==
       ""      :> <<>>
    @@ "0"     :> <<"0">>
    @@ "1"     :> <<"1">>
    @@ "5"     :> <<"5">>
    @@ "9"     :> <<"9">>
    @@ "10"    :> <<"1", "0">>
    @@ "1.2"   :> <<"1", ".", "2">>
    @@ "1.4"   :> <<"1", ".", "4">>
    @@ "1.5"   :> <<"1", ".", "5">>
    @@ "1.10"  :> <<"1", ".", "1", "0">>
    @@ "1.4.2" :> <<"1", ".", "4", ".", "2">>
    @@ "1.5a"  :> <<"1", ".", "5", "a">>
    @@ "A"     :> <<"A">>
    @@ "B"     :> <<"B">>
    @@ "C"     :> <<"C">>
    @@ "a"     :> <<"a">>
    @@ "b"     :> <<"b">>

\* s < t for two character sequences, as Python's str comparison.
RECURSIVE CharsLess(_, _)
CharsLess(s, t) ==
    IF t = <<>> THEN FALSE
    ELSE IF s = <<>> THEN TRUE
    ELSE IF Head(s) # Head(t) THEN Ord(Head(s)) < Ord(Head(t))
    ELSE CharsLess(Tail(s), Tail(t))

StrLess(a, b) == CharsLess(CharsOf[a], CharsOf[b])

-----------------------------------------------------------------------------
(* dict helpers                                                            *)

EmptyDict == [k \in {} |-> k]

\* d[k] = v
DictSet(d, k, v) == [x \in DOMAIN d \cup {k} |-> IF x = k THEN v ELSE d[x]]

\* d.update(m)
DictUpdate(d, m) ==
    [x \in DOMAIN d \cup DOMAIN m |-> IF x \in DOMAIN m THEN m[x] ELSE d[x]]

-----------------------------------------------------------------------------
(* distutils.version.LooseVersion, as used by _assert_dependencies         *)

CharClass(c) ==
    IF IsDigit(c) THEN "digit"
    ELSE IF IsLower(c) THEN "alpha"
    ELSE IF c = "." THEN "dot"
    ELSE "other"

\* component_re.split: maximal runs of digits, of lower-case letters and of
\* other characters; every "." is a piece of its own.
RECURSIVE SplitRuns(_, _, _)
SplitRuns(chars, cur, acc) ==
    IF chars = <<>>
    THEN IF cur = <<>> THEN acc ELSE Append(acc, cur)
    ELSE LET c == Head(chars)
             same == /\ cur # <<>>
                     /\ CharClass(c) # "dot"
                     /\ CharClass(cur[1]) = CharClass(c)
         IN IF same
            THEN SplitRuns(Tail(chars), Append(cur, c), acc)
            ELSE SplitRuns(Tail(chars), <<c>>,
                           IF cur = <<>> THEN acc ELSE Append(acc, cur))

RECURSIVE IntOf(_, _)
IntOf(digits, n) ==
    IF digits = <<>> THEN n
    ELSE IntOf(Tail(digits), 10 * n + DigitVal(Head(digits)))

\* Variant: every component is kept as a str.
ComponentAsStr(run) == [isint |-> FALSE, int |-> 0, str |-> run]

\* One component of a parsed version: an int, or the str kept as it is.
Component(run) ==
    IF IsDigit(run[1])
    THEN [isint |-> TRUE, int |-> IntOf(run, 0), str |-> <<>>]
    ELSE [isint |-> FALSE, int |-> 0, str |-> run]

Components(runs) == [i \in 1..Len(runs) |-> Component(runs[i])]

\* LooseVersion.parse: the components, without the "." pieces.
LooseVersion(vstring) ==
    Components(SelectSeq(SplitRuns(CharsOf[vstring], <<>>, <<>>),
                         LAMBDA r : r # <<".">>))

\* Python 2 ordering of two components: an int is below every str.
ComponentLess(x, y) ==
    IF x.isint /\ y.isint THEN x.int < y.int
    ELSE IF x.isint THEN TRUE
    ELSE IF y.isint THEN FALSE
    ELSE CharsLess(x.str, y.str)

\* LooseVersion.__cmp__ < 0: list comparison of the components.
RECURSIVE VersionLess(_, _)
VersionLess(v, w) ==
    IF w = <<>> THEN FALSE
    ELSE IF v = <<>> THEN TRUE
    ELSE IF Head(v) # Head(w) THEN ComponentLess(Head(v), Head(w))
    ELSE VersionLess(Tail(v), Tail(w))

-----------------------------------------------------------------------------
(* ChainMap and _NestedChainMap.  A chain is its list maps, front first.    *)

\* key in chain (Mapping.__contains__ over ChainMap.__getitem__)
ChainContains(maps, key) == \E i \in 1..Len(maps) : key \in DOMAIN maps[i]

\* Variant: the mappings are tried from the back, the last one wins.
ChainGetItemLast(maps, key) ==
    LET last == CHOOSE i \in 1..Len(maps) :
                    /\ key \in DOMAIN maps[i]
                    /\ \A j \in (i + 1)..Len(maps) : key \notin DOMAIN maps[j]
    IN maps[last][key]

\* ChainMap.__getitem__ for a key the chain contains: the first mapping wins.
ChainGetItem(maps, key) ==
    LET first == CHOOSE i \in 1..Len(maps) :
                     /\ key \in DOMAIN maps[i]
                     /\ \A j \in 1..(i - 1) : key \notin DOMAIN maps[j]
    IN maps[first][key]

\* Variant: only the last mapping of the chain is read.
ChainGetBase(maps, key, default) ==
    IF key \in DOMAIN maps[Len(maps)] THEN maps[Len(maps)][key] ELSE default

\* ChainMap.get
ChainGet(maps, key, default) ==
    IF ChainContains(maps, key) THEN ChainGetItem(maps, key) ELSE default

\* ChainMap.__iter__: the keys of all the mappings.
ChainKeys(maps) == UNION {DOMAIN maps[i] : i \in 1..Len(maps)}

\* dict(chain) for a ChainMap
ChainDict(maps) == [k \in ChainKeys(maps) |-> ChainGetItem(maps, k)]

\* Variant: result.update(value) for value in values, the back-most last.
RECURSIVE UpdateForward(_, _)
UpdateForward(result, values) ==
    IF values = <<>> THEN result
    ELSE UpdateForward(DictUpdate(result, Head(values)), Tail(values))

\* result.update(value) for value in reversed(values)
RECURSIVE UpdateReversed(_, _)
UpdateReversed(result, values) ==
    IF values = <<>> THEN result
    ELSE UpdateReversed(DictUpdate(result, values[Len(values)]),
                        SubSeq(values, 1, Len(values) - 1))

\* _NestedChainMap.__getitem__ for a key the chain contains.  Every value of
\* the file store is a dict, so the values are merged, front-most last.
ValuesAt(having, key) == [i \in 1..Len(having) |-> having[i][key]]

NestedGetItem(maps, key) ==
    UpdateReversed(EmptyDict,
                   ValuesAt(SelectSeq(maps, LAMBDA m : key \in DOMAIN m), key))

\* dict(chain) for a _NestedChainMap
NestedDict(maps) == [k \in ChainKeys(maps) |-> NestedGetItem(maps, k)]

-----------------------------------------------------------------------------
(* Elements of the configuration tree                                      *)

\* An element under a dependencies/visible/moduleDependencies container.
\* Attributes an element does not carry are "", children it has not are <<>>.
Elem(tag, version, file, state, flag, value, operator, checks) ==
    [tag |-> tag, version |-> version, file |-> file, state |-> state,
     flag |-> flag, value |-> value, operator |-> operator, checks |-> checks]

NoElem == Elem("None", "", "", "", "", "", "", <<>>)

GameDep(version) == Elem("gameDependency", version, "", "", "", "", "", <<>>)

FileDep(file, state) == Elem("fileDependency", "", file, state, "", "", "", <<>>)

FlagDep(flag, value) == Elem("flagDependency", "", "", "", flag, value, "", <<>>)

\* A composite: operator is "And", "Or" or "" (attribute not given).
Deps(operator, checks) == Elem("dependencies", "", "", "", "", "", operator, checks)

NoVersion == [given |-> FALSE, text |-> ""]

Version(text) == [given |-> TRUE, text |-> text]

NoDest == [given |-> FALSE, exists |-> {}]

Dest(paths) == [given |-> TRUE, exists |-> paths]

-----------------------------------------------------------------------------
(* _assert_dependencies                                                    *)

\* The arguments of MissingDependency; NoMiss is the empty tuple ().
Miss(type, expected, actual) ==
    [type |-> type, expected |-> expected, actual |-> actual]

NoMiss == Miss("", "", "")

\* The outcome of a call: raised is "" when it returned, else the exception
\* type; missed is the exception's arguments; visited counts the checks of
\* the outermost loop that were begun.
Outcome(raised, missed, visited) ==
    [raised |-> raised, missed |-> missed, visited |-> visited]

\* The flagDependency check against the flag's value.
FlagMissed(check, actual) ==
    IF check.value # actual THEN Miss("Flag", check.value, actual) ELSE NoMiss

\* Variant: the Inactive state asks for the file not to be there.
FileMissedInactiveAbsent(check, file_state) ==
    IF check.state \in {"Missing", "Inactive"} /\ file_state
    THEN Miss("File", IF check.state = "Missing" THEN "missing" ELSE "inactive",
              check.file)
    ELSE IF check.state = "Active" /\ ~file_state
    THEN Miss("File", "active", check.file)
    ELSE NoMiss

\* The fileDependency check against os.path.exists.
FileMissed(check, file_state) ==
    IF check.state = "Missing" /\ file_state
    THEN Miss("File", "missing", check.file)
    ELSE IF check.state \in {"Active", "Inactive"} /\ ~file_state
    THEN Miss("File", IF check.state = "Active" THEN "active" ELSE "inactive",
              check.file)
    ELSE NoMiss

\* One gameDependency, fileDependency or flagDependency check: its missed_dep.
LeafMissed(check, flag_states, dest_, game_version_) ==
    IF check.tag = "gameDependency"
    THEN IF ~game_version_.given THEN NoMiss
         ELSE IF VersionLess(LooseVersion(game_version_.text),
                             LooseVersion(check.version))
         THEN Miss("Version", check.version, game_version_.text)
         ELSE NoMiss
    ELSE IF check.tag = "fileDependency"
    THEN IF ~dest_.given THEN NoMiss
         ELSE FileMissed(check, check.file \in dest_.exists)
    ELSE IF check.tag = "flagDependency"
    THEN FlagMissed(check, ChainGet(flag_states, check.flag, ""))
    ELSE NoMiss

\* After the loop: the Or operator raises when every check was missed.
LoopEnd(depend, operator, missed_dep_num, last) ==
    IF operator = "Or" /\ missed_dep_num = Len(depend.checks)
    THEN IF Len(depend.checks) = 0
         THEN Outcome("UnboundLocalError", NoMiss, 0)
         ELSE Outcome("MissingDependency", last, Len(depend.checks))
    ELSE Outcome("", NoMiss, Len(depend.checks))

RECURSIVE AssertDependencies(_, _, _, _)
RECURSIVE AssertLoop(_, _, _, _, _, _, _)

\* Check i was a nested dependencies element: what it raised is raised.
AfterNested(depend, flag_states, dest_, game_version_, i, missed_dep_num, inner) ==
    IF inner.raised # ""
    THEN Outcome(inner.raised, inner.missed, i)
    ELSE AssertLoop(depend, flag_states, dest_, game_version_,
                    i + 1, missed_dep_num, NoMiss)

\* Variant: the And operator goes on to the next check as the Or operator does.
AfterLeafNoShortCircuit(depend, operator, flag_states, dest_, game_version_, i, missed_dep_num, missed_dep) ==
    IF missed_dep = NoMiss
    THEN AssertLoop(depend, flag_states, dest_, game_version_,
                    i + 1, missed_dep_num, NoMiss)
    ELSE AssertLoop(depend, flag_states, dest_, game_version_,
                    i + 1, missed_dep_num + 1, missed_dep)

\* Check i gave missed_dep: the And operator raises at once.
AfterLeaf(depend, operator, flag_states, dest_, game_version_, i, missed_dep_num, missed_dep) ==
    IF missed_dep = NoMiss
    THEN AssertLoop(depend, flag_states, dest_, game_version_,
                    i + 1, missed_dep_num, NoMiss)
    ELSE IF operator = "And"
    THEN Outcome("MissingDependency", missed_dep, i)
    ELSE AssertLoop(depend, flag_states, dest_, game_version_,
                    i + 1, missed_dep_num + 1, missed_dep)

\* depend.get('operator', 'And')
Operator(depend) == IF depend.operator = "" THEN "And" ELSE depend.operator

\* The loop over checks from check i on, with missed_dep_num and the
\* missed_dep of the check before.
AssertLoop(depend, flag_states, dest_, game_version_, i, missed_dep_num, last) ==
    IF i > Len(depend.checks)
    THEN LoopEnd(depend, Operator(depend), missed_dep_num, last)
    ELSE IF depend.checks[i].tag = "dependencies"
    THEN AfterNested(depend, flag_states, dest_, game_version_, i, missed_dep_num,
                     AssertDependencies(depend.checks[i], flag_states,
                                        dest_, game_version_))
    ELSE AfterLeaf(depend, Operator(depend), flag_states, dest_, game_version_, i,
                   missed_dep_num,
                   LeafMissed(depend.checks[i], flag_states, dest_, game_version_))

AssertDependencies(depend, flag_states, dest_, game_version_) ==
    IF depend.tag = "None"
    THEN Outcome("", NoMiss, 0)
    ELSE AssertLoop(depend, flag_states, dest_, game_version_, 1, 0, NoMiss)

-----------------------------------------------------------------------------
(* _collect_files, _collect_flags, Installer.collected_files, flag_states  *)

\* A file or folder item of a files list.  priority "" stands for an item
\* without the attribute (read as '0'); destination "" likewise (read as '').
File(source, destination, priority) ==
    [source |-> source, destination |-> destination, priority |-> priority]

\* A flag item of a conditionFlags list: its name and its text.
Flag(name, text) == [name |-> name, text |-> text]

\* The loop of _collect_files over the items from item i on.
RECURSIVE FileDictLoop(_, _, _)
FileDictLoop(items, i, file_dict) ==
    IF i > Len(items) THEN file_dict
    ELSE LET item == items[i]
             prio == IF item.priority = "" THEN "0" ELSE item.priority
             prio_dict == IF prio \in DOMAIN file_dict
                          THEN file_dict[prio] ELSE EmptyDict
         IN FileDictLoop(items, i + 1,
                DictSet(file_dict, prio,
                        DictSet(prio_dict, item.source, item.destination)))

\* _collect_files(file_list, collected_files): the maps afterwards.
CollectFiles(file_list, maps) ==
    <<FileDictLoop(file_list, 1, EmptyDict)>> \o maps

\* The loop of _collect_flags.
RECURSIVE FlagDictLoop(_, _, _)
FlagDictLoop(flags, i, flag_dict) ==
    IF i > Len(flags) THEN flag_dict
    ELSE FlagDictLoop(flags, i + 1,
                      DictSet(flag_dict, flags[i].name, flags[i].text))

\* _collect_flags(flag_list, flag_states): the maps afterwards.
CollectFlags(flag_list, maps) ==
    <<FlagDictLoop(flag_list, 1, EmptyDict)>> \o maps

\* sorted(keys, reverse=True) for a set of distinct str keys.
RECURSIVE SortedReverse(_)
SortedReverse(keys) ==
    IF keys = {} THEN <<>>
    ELSE LET top == CHOOSE k \in keys : \A x \in keys \ {k} : StrLess(x, k)
         IN <<top>> \o SortedReverse(keys \ {top})

\* Installer.collected_files: final_map.maps after the loop over sorted_keys.
FinalMaps(maps, sorted_keys) ==
    <<EmptyDict>> \o
    [i \in 1..Len(sorted_keys) |-> NestedGetItem(maps, sorted_keys[i])]

\* Installer.collected_files
CollectedFiles(maps) == ChainDict(FinalMaps(maps, SortedReverse(ChainKeys(maps))))

\* Installer.flag_states
FlagStates(maps) == ChainDict(maps)

\* What a caller holds after reading one of the two properties: which one,
\* and the dict it returned.  A push or a pop of a layer forgets it.
View(kind, value) == [kind |-> kind, value |-> value]

NoView == View("", EmptyDict)

\* Variant: final is the store itself, the buckets are appended to its maps.
FilesReadAliased(maps) ==
    [maps |-> maps \o Tail(FinalMaps(maps, SortedReverse(ChainKeys(maps)))),
     value |-> CollectedFiles(maps)]

\* A read of Installer.collected_files: the dict returned and the maps of
\* self._collected_files afterwards (the buckets are appended to final, a
\* ChainMap of its own, and each bucket is a dict built by __getitem__).
FilesRead(maps) == [maps |-> maps, value |-> CollectedFiles(maps)]

\* A read of Installer.flag_states: dict() iterates the chain and gets each
\* key; the maps of self._flag_states are not written.
FlagsRead(maps) == [maps |-> maps, value |-> FlagStates(maps)]

-----------------------------------------------------------------------------
(* _explicit_list, _ordered_list                                           *)

\* A container with an order attribute ("" when not given) and its children.
Container(order, children) == [order |-> order, children |-> children]

\* Variant: an element is put in front of the elements it compares equal to.
RECURSIVE InsertUnstable(_, _, _)
InsertUnstable(sorted, elem, reverse) ==
    IF sorted = <<>> THEN <<elem>>
    ELSE LET after == IF reverse
                      THEN ~StrLess(elem.name, Head(sorted).name)
                      ELSE ~StrLess(Head(sorted).name, elem.name)
         IN IF after THEN <<elem>> \o sorted
            ELSE <<Head(sorted)>> \o InsertUnstable(Tail(sorted), elem, reverse)

\* Insert elem into sorted so that it comes after every element that does
\* not sort after it (the stable insertion of sorted()).
RECURSIVE InsertStable(_, _, _)
InsertStable(sorted, elem, reverse) ==
    IF sorted = <<>> THEN <<elem>>
    ELSE LET after == IF reverse
                      THEN StrLess(Head(sorted).name, elem.name)
                      ELSE StrLess(elem.name, Head(sorted).name)
         IN IF after THEN <<elem>> \o sorted
            ELSE <<Head(sorted)>> \o InsertStable(Tail(sorted), elem, reverse)

RECURSIVE SortedByName(_, _, _)
SortedByName(children, reverse, acc) ==
    IF children = <<>> THEN acc
    ELSE SortedByName(Tail(children), reverse,
                      InsertStable(acc, Head(children), reverse))

\* No container (root is None): _ordered_list returns the empty list.
NoList == Container("Explicit", <<>>)

OrderedList(root) ==
    LET order == IF root.order = "" THEN "Ascending" ELSE root.order
    IN IF order = "Explicit" THEN root.children
       ELSE SortedByName(root.children, order # "Ascending", <<>>)

-----------------------------------------------------------------------------
(* The configuration tree read by Installer._installer                     *)

\* A pattern: its dependencies and what it yields (a type name under
\* typeDescriptor, a files list under conditionalFileInstalls).
TypePattern(dependencies, type) == [dependencies |-> dependencies, type |-> type]

FilePattern(dependencies, files) == [dependencies |-> dependencies, files |-> files]

\* typeDescriptor: type is "" when there is no type element, and then
\* dependencyType gives defaultType and patterns.
TypeDescriptor(type, defaultType, patterns) ==
    [type |-> type, defaultType |-> defaultType, patterns |-> patterns]

Plugin(name, typeDescriptor, files, conditionFlags) ==
    [name |-> name, typeDescriptor |-> typeDescriptor, files |-> files,
     conditionFlags |-> conditionFlags]

Group(name, type, plugins) == [name |-> name, type |-> type, plugins |-> plugins]

InstallStep(name, visible, optionalFileGroups) ==
    [name |-> name, visible |-> visible, optionalFileGroups |-> optionalFileGroups]

Config(moduleDependencies, requiredInstallFiles, installSteps, conditionalFileInstalls) ==
    [moduleDependencies |-> moduleDependencies,
     requiredInstallFiles |-> requiredInstallFiles,
     installSteps |-> installSteps,
     conditionalFileInstalls |-> conditionalFileInstalls]

-----------------------------------------------------------------------------
(* Installer._installer: building the step handed to the caller            *)

RECURSIVE PatternType(_, _, _, _, _)

\* Variant: a MissingDependency of a pattern is not caught.
AfterPatternRaises(type_elem, i, flag_states, dest_, game_version_, o) ==
    IF o.raised = ""
    THEN [raised |-> "", type |-> type_elem.patterns[i].type]
    ELSE [raised |-> o.raised, type |-> ""]

\* Pattern i gave outcome o: its type when the dependencies are met, the next
\* pattern on MissingDependency.
AfterPattern(type_elem, i, flag_states, dest_, game_version_, o) ==
    IF o.raised = ""
    THEN [raised |-> "", type |-> type_elem.patterns[i].type]
    ELSE IF o.raised = "MissingDependency"
    THEN PatternType(type_elem, i + 1, flag_states, dest_, game_version_)
    ELSE [raised |-> o.raised, type |-> ""]

\* Variant: the patterns are not looked at.
PatternTypeDefault(type_elem, i, flag_states, dest_, game_version_) ==
    [raised |-> "", type |-> type_elem.defaultType]

\* The for/else over the patterns of a dependencyType, from pattern i on.
PatternType(type_elem, i, flag_states, dest_, game_version_) ==
    IF i > Len(type_elem.patterns)
    THEN [raised |-> "", type |-> type_elem.defaultType]
    ELSE AfterPattern(type_elem, i, flag_states, dest_, game_version_,
                      AssertDependencies(type_elem.patterns[i].dependencies,
                                         flag_states, dest_, game_version_))

\* plugin_dict['type']
PluginType(plugin, flag_states, dest_, game_version_) ==
    IF plugin.typeDescriptor.type # ""
    THEN [raised |-> "", type |-> plugin.typeDescriptor.type]
    ELSE PatternType(plugin.typeDescriptor, 1, flag_states, dest_, game_version_)

PluginTypes(plugins, flag_states, dest_, game_version_) ==
    [k \in 1..Len(plugins) |->
        PluginType(plugins[k], flag_states, dest_, game_version_)]

\* What the first type resolution that raised, raised ("" when none did).
FirstRaised(types) ==
    IF \A k \in 1..Len(types) : types[k].raised = "" THEN ""
    ELSE types[CHOOSE k \in 1..Len(types) :
                   /\ types[k].raised # ""
                   /\ \A j \in 1..(k - 1) : types[j].raised = ""].raised

\* group_dict, with n identifiers drawn before: the k-th uuid4() call of the
\* run returns the identifier k.
GroupDict(group, plugins, types, n) ==
    [name |-> group.name, type |-> group.type, id |-> n + 1,
     plugins |-> [k \in 1..Len(plugins) |->
                     [id |-> n + 1 + k, name |-> plugins[k].name,
                      type |-> types[k].type]]]

\* id_dict[plugin_dict['id']] = plugin, for the plugins of one group
IdDict(id_dict_, plugins, n) ==
    [id \in DOMAIN id_dict_ \cup {n + 1 + k : k \in 1..Len(plugins)} |->
        IF id \in DOMAIN id_dict_ THEN id_dict_[id] ELSE plugins[id - n - 1]]

RECURSIVE GroupLoop(_, _, _, _, _, _)

\* The body of "for group in groups" for group gi, with its ordered plugins
\* and their types.
GroupBody(groups, gi, flag_states, dest_, game_version_, acc, plugins, types) ==
    IF FirstRaised(types) # ""
    THEN [acc EXCEPT !.raised = FirstRaised(types)]
    ELSE GroupLoop(groups, gi + 1, flag_states, dest_, game_version_,
                   [groups |-> Append(acc.groups,
                                      GroupDict(groups[gi], plugins, types, acc.drawn)),
                    id_dict |-> IdDict(acc.id_dict, plugins, acc.drawn),
                    drawn |-> acc.drawn + 1 + Len(plugins),
                    raised |-> ""])

GroupPlugins(groups, gi, flag_states, dest_, game_version_, acc, plugins) ==
    GroupBody(groups, gi, flag_states, dest_, game_version_, acc, plugins,
              PluginTypes(plugins, flag_states, dest_, game_version_))

\* "group processing" from group gi on.  acc holds step_dict['groups'] and
\* id_dict so far, the number of identifiers drawn, and what a type
\* resolution raised, if any did.
GroupLoop(groups, gi, flag_states, dest_, game_version_, acc) ==
    IF gi > Len(groups) THEN acc
    ELSE GroupPlugins(groups, gi, flag_states, dest_, game_version_, acc,
                      OrderedList(groups[gi].plugins))

StepResult(step, acc) ==
    [step_dict |-> [name |-> step.name, groups |-> acc.groups],
     id_dict |-> acc.id_dict, drawn |-> acc.drawn, raised |-> acc.raised]

\* Variant: the identifiers of a step are the same at every presentation.
BuildStepFromZero(step, n, flag_states, dest_, game_version_) ==
    StepResult(step,
               GroupLoop(OrderedList(step.optionalFileGroups), 1, flag_states,
                         dest_, game_version_,
                         [groups |-> <<>>, id_dict |-> EmptyDict, drawn |-> 0,
                          raised |-> ""]))

\* The step processing of one visible step, with n identifiers drawn before:
\* step_dict, id_dict, the number of identifiers drawn afterwards, and what a
\* type resolution raised, if any did.
BuildStep(step, n, flag_states, dest_, game_version_) ==
    StepResult(step,
               GroupLoop(OrderedList(step.optionalFileGroups), 1, flag_states,
                         dest_, game_version_,
                         [groups |-> <<>>, id_dict |-> EmptyDict, drawn |-> n,
                          raised |-> ""]))

RECURSIVE NextVisible(_, _, _, _, _)

\* Variant: a MissingDependency of the visibility check does not skip the step.
AfterVisibleNoSkip(step_list, i, flag_states, dest_, game_version_, o) ==
    IF o.raised \in {"", "MissingDependency"}
    THEN [found |-> TRUE, index |-> i, raised |-> ""]
    ELSE [found |-> FALSE, index |-> i, raised |-> o.raised]

\* The visibility check of step i gave outcome o.
AfterVisible(step_list, i, flag_states, dest_, game_version_, o) ==
    IF o.raised = "" THEN [found |-> TRUE, index |-> i, raised |-> ""]
    ELSE IF o.raised = "MissingDependency"
    THEN NextVisible(step_list, i, flag_states, dest_, game_version_)
    ELSE [found |-> FALSE, index |-> i, raised |-> o.raised]

\* The "get next visible index" loop, entered with index: the index it stops
\* at, whether that is a step (no IndexError), and what a visibility check
\* raised other than MissingDependency, if any did.
NextVisible(step_list, index_, flag_states, dest_, game_version_) ==
    IF index_ + 1 >= Len(step_list)
    THEN [found |-> FALSE, index |-> index_ + 1, raised |-> ""]
    ELSE AfterVisible(step_list, index_ + 1, flag_states, dest_, game_version_,
                      AssertDependencies(step_list[index_ + 2].visible,
                                         flag_states, dest_, game_version_))

RECURSIVE ConditionalInstalls(_, _, _, _, _, _)

\* Variant: a MissingDependency of a pattern is not caught.
AfterConditionRaises(pattern_list, i, flag_states, maps, dest_, game_version_, o) ==
    IF o.raised = ""
    THEN ConditionalInstalls(pattern_list, i + 1, flag_states,
                             CollectFiles(pattern_list[i].files, maps),
                             dest_, game_version_)
    ELSE [raised |-> o.raised, maps |-> maps]

\* Variant: the files of a met pattern are put behind every other layer.
AfterConditionBehind(pattern_list, i, flag_states, maps, dest_, game_version_, o) ==
    IF o.raised = ""
    THEN ConditionalInstalls(pattern_list, i + 1, flag_states,
                             maps \o <<FileDictLoop(pattern_list[i].files, 1, EmptyDict)>>,
                             dest_, game_version_)
    ELSE IF o.raised = "MissingDependency"
    THEN ConditionalInstalls(pattern_list, i + 1, flag_states, maps,
                             dest_, game_version_)
    ELSE [raised |-> o.raised, maps |-> maps]

\* The dependencies of pattern i gave outcome o.
AfterCondition(pattern_list, i, flag_states, maps, dest_, game_version_, o) ==
    IF o.raised = ""
    THEN ConditionalInstalls(pattern_list, i + 1, flag_states,
                             CollectFiles(pattern_list[i].files, maps),
                             dest_, game_version_)
    ELSE IF o.raised = "MissingDependency"
    THEN ConditionalInstalls(pattern_list, i + 1, flag_states, maps,
                             dest_, game_version_)
    ELSE [raised |-> o.raised, maps |-> maps]

\* The conditionalFileInstalls loop from pattern i on: the file maps afterwards
\* and what a check raised other than MissingDependency, if any did.
ConditionalInstalls(pattern_list, i, flag_states, maps, dest_, game_version_) ==
    IF i > Len(pattern_list) THEN [raised |-> "", maps |-> maps]
    ELSE AfterCondition(pattern_list, i, flag_states, maps, dest_, game_version_,
                        AssertDependencies(pattern_list[i].dependencies,
                                           flag_states, dest_, game_version_))

-----------------------------------------------------------------------------
(* Installer._installer: processing the answer                             *)

\* An answer as sent by the caller.  given is FALSE for None (the caller
\* resumed the generator with next() instead of send(answer)); previous_step
\* is "True", "False" or "" (no such key); groups maps the other keys, group
\* ids, to lists of plugin ids.
Answer(previous_step, groups) ==
    [given |-> TRUE, previous_step |-> previous_step, groups |-> groups]

NoAnswer == [given |-> FALSE, previous_step |-> "", groups |-> EmptyDict]

\* answer.get(group_id, [])
Chosen(groups, group_id) ==
    IF group_id \in DOMAIN groups THEN groups[group_id] ELSE <<>>

\* The positions in seq of the elements with this id: from_id takes the first,
\* and raises StopIteration when there is none.
Positions(seq, id) == {i \in 1..Len(seq) : seq[i].id = id}

\* The loop "for plugin_id in answer[group_id]" from position i on: what it
\* raises ("" when it ends).
RECURSIVE NotUsableLoop(_, _, _)

\* Variant: the plugins listed are not looked at.
NotUsableLoopOff(group, plugin_ids, i) == ""

NotUsableLoop(group, plugin_ids, i) ==
    IF i > Len(plugin_ids) THEN ""
    ELSE LET at == Positions(group.plugins, plugin_ids[i])
         IN IF at = {} THEN "StopIteration"
            ELSE IF group.plugins[CHOOSE x \in at : \A y \in at : x <= y].type
                    = "NotUsable"
            THEN "ValueError"
            ELSE NotUsableLoop(group, plugin_ids, i + 1)

\* answer.setdefault(group_id, []).append(plugin['id']) for every Required
\* plugin of the group, from plugin k on.
RECURSIVE AppendRequired(_, _, _)

\* Variant: no Required plugin is appended.
AppendRequiredOff(group, k, groups) == groups

AppendRequired(group, k, groups) ==
    IF k > Len(group.plugins) THEN groups
    ELSE AppendRequired(group, k + 1,
            IF group.plugins[k].type = "Required"
            THEN DictSet(groups, group.id,
                         Append(Chosen(groups, group.id), group.plugins[k].id))
            ELSE groups)

\* "validate answer": the loop over step_dict['groups'] from group gi on, on
\* the answer's group entries: what it raises and the entries afterwards.
RECURSIVE ValidateLoop(_, _, _)

\* Variant: a SelectAll group keeps the ids the caller listed.
ValidateLoopKeepsListed(step, gi, groups) ==
    IF gi > Len(step.groups) THEN [raised |-> "", groups |-> groups]
    ELSE LET group == step.groups[gi]
             n == Len(Chosen(groups, group.id))
             count_bad == \/ group.type = "SelectExactlyOne" /\ n # 1
                          \/ group.type = "SelectAtMostOne" /\ n > 1
                          \/ group.type = "SelectAtLeastOne" /\ n < 1
             usable == IF group.id \in DOMAIN groups
                       THEN NotUsableLoop(group, groups[group.id], 1)
                       ELSE ""
         IN IF count_bad THEN [raised |-> "ValueError", groups |-> groups]
            ELSE IF usable # "" THEN [raised |-> usable, groups |-> groups]
            ELSE ValidateLoop(step, gi + 1, AppendRequired(group, 1, groups))

\* Variant: the choices are counted after SelectAll and Required were applied.
ValidateLoopCountsAfter(step, gi, groups) ==
    IF gi > Len(step.groups) THEN [raised |-> "", groups |-> groups]
    ELSE LET group == step.groups[gi]
             usable == IF group.id \in DOMAIN groups
                       THEN NotUsableLoop(group, groups[group.id], 1)
                       ELSE ""
             all == IF group.type = "SelectAll"
                    THEN DictSet(groups, group.id,
                            [k \in 1..Len(group.plugins) |-> group.plugins[k].id])
                    ELSE groups
             n == Len(Chosen(AppendRequired(group, 1, all), group.id))
             count_bad == \/ group.type = "SelectExactlyOne" /\ n # 1
                          \/ group.type = "SelectAtMostOne" /\ n > 1
                          \/ group.type = "SelectAtLeastOne" /\ n < 1
         IN IF count_bad THEN [raised |-> "ValueError", groups |-> groups]
            ELSE IF usable # "" THEN [raised |-> usable, groups |-> groups]
            ELSE ValidateLoop(step, gi + 1, AppendRequired(group, 1, all))

ValidateLoop(step, gi, groups) ==
    IF gi > Len(step.groups) THEN [raised |-> "", groups |-> groups]
    ELSE LET group == step.groups[gi]
             n == Len(Chosen(groups, group.id))
             count_bad == \/ group.type = "SelectExactlyOne" /\ n # 1
                          \/ group.type = "SelectAtMostOne" /\ n > 1
                          \/ group.type = "SelectAtLeastOne" /\ n < 1
             usable == IF group.id \in DOMAIN groups
                       THEN NotUsableLoop(group, groups[group.id], 1)
                       ELSE ""
             all == IF group.type = "SelectAll"
                    THEN DictSet(groups, group.id,
                            [k \in 1..Len(group.plugins) |-> group.plugins[k].id])
                    ELSE groups
         IN IF count_bad THEN [raised |-> "ValueError", groups |-> groups]
            ELSE IF usable # "" THEN [raised |-> usable, groups |-> groups]
            ELSE ValidateLoop(step, gi + 1, AppendRequired(group, 1, all))

\* Variant: the ids are kept as the answer lists them.
SortedPluginsAsListed(group, ids) == ids

\* sorted(list(set(ids)), key=position in the group): every id is of the group.
SortedPlugins(group, ids) ==
    LET chosen == {ids[i] : i \in 1..Len(ids)}
        kept == SelectSeq(group.plugins, LAMBDA p : p.id \in chosen)
    IN [i \in 1..Len(kept) |-> kept[i].id]

\* "sort groups and plugins in answer": the OrderedDict as a list of
\* (group id, plugin ids) items, or StopIteration for a key that is no group
\* of the step.
Normalized(step, groups) ==
    IF \E key \in DOMAIN groups : Positions(step.groups, key) = {}
    THEN [raised |-> "StopIteration", items |-> <<>>]
    ELSE LET kept == SelectSeq(step.groups, LAMBDA g : g.id \in DOMAIN groups)
         IN [raised |-> "",
             items |-> [i \in 1..Len(kept) |->
                           [id |-> kept[i].id,
                            plugins |-> SortedPlugins(kept[i], groups[kept[i].id])]]]

\* The plugin ids of the normalized answer, in the order they are collected.
RECURSIVE Flattened(_)
Flattened(items) ==
    IF items = <<>> THEN <<>> ELSE Head(items).plugins \o Flattened(Tail(items))

\* Variant: the dict of each plugin is put behind those collected before it.
RECURSIVE StepChainsAppending(_, _, _, _, _)
StepChainsAppending(plugin_ids, ids, i, file_chain, flag_chain) ==
    IF i > Len(plugin_ids)
    THEN [files |-> file_chain, flags |-> flag_chain]
    ELSE StepChainsAppending(
             plugin_ids, ids, i + 1,
             file_chain \o <<FileDictLoop(ids[plugin_ids[i]].files, 1, EmptyDict)>>,
             flag_chain \o <<FlagDictLoop(ids[plugin_ids[i]].conditionFlags, 1,
                                          EmptyDict)>>)

\* "collect files and flags": step_file_chain.maps and step_flag_chain.maps
\* after the loops, from plugin i of the flattened selection on.
RECURSIVE StepChains(_, _, _, _, _)
StepChains(plugin_ids, ids, i, file_chain, flag_chain) ==
    IF i > Len(plugin_ids)
    THEN [files |-> file_chain, flags |-> flag_chain]
    ELSE StepChains(plugin_ids, ids, i + 1,
                    CollectFiles(ids[plugin_ids[i]].files, file_chain),
                    CollectFlags(ids[plugin_ids[i]].conditionFlags, flag_chain))

-----------------------------------------------------------------------------
(* Bounds and inputs                                                       *)

\* The most {'previous_step': True} answers processed in one run.
MaxBack == 2

\* The longest list of plugin ids the caller sends for one group.
MaxPicks == 2

-----------------------------------------------------------------------------
(* The generator as a state machine                                        *)

\* What a send()/next() call gives its caller: kind is "None" or "step" for a
\* value yielded, else the type of the exception raised; missed holds the
\* arguments of a MissingDependency.
Out(kind, missed) == [kind |-> kind, missed |-> missed]

NoStep == [name |-> "", groups |-> <<>>]

\* History of the run, kept beside the program state:
\*   presented  the indices of the steps yielded so far, in order
\*   shown      the plugin types of those steps as yielded, group by group
\*   live       for every accepted answer not undone by a later backward
\*              request, most recent first: the index of its step and the
\*              plugin ids and elements of its normalized selection
\*   backs      the number of backward requests processed
\*   last, prev the kinds of the last two inputs processed
\*   snap       flag_states, collected_files and index just before the last
\*              accepted answer was applied
\*   scan_from  the index the last "next visible index" loop was entered with
\*   primed     whether the generator reached its first yield
\*   error      the exception the generator ended with, if it did
HistInit ==
    [presented |-> <<>>, shown |-> <<>>, live |-> <<>>, backs |-> 0, last |-> "",
     prev |-> "",
     snap |-> [flags |-> EmptyDict, files |-> EmptyDict, index |-> -1],
     scan_from |-> -1, primed |-> FALSE, error |-> Out("", NoMiss)]

\* The program state and history as one record.
Cur ==
    [pc |-> pc, flag_maps |-> flag_maps, file_maps |-> file_maps, index |-> index,
     previous_index |-> previous_index, step_dict |-> step_dict,
     id_dict |-> id_dict, answer |-> answer, uuid_count |-> uuid_count,
     out |-> out, hist |-> hist]

Apply(st) ==
    /\ pc' = st.pc
    /\ flag_maps' = st.flag_maps
    /\ file_maps' = st.file_maps
    /\ index' = st.index
    /\ previous_index' = st.previous_index
    /\ step_dict' = st.step_dict
    /\ id_dict' = st.id_dict
    /\ answer' = st.answer
    /\ uuid_count' = st.uuid_count
    /\ out' = st.out
    /\ hist' = st.hist

\* Variant: the exception is reported and the generator goes on.
RaisedGoesOn(st, type, missed) ==
    [st EXCEPT !.out = Out(type, missed), !.hist.error = Out(type, missed)]

\* The generator ends with an exception.
Raised(st, type, missed) ==
    [st EXCEPT !.pc = "raised", !.out = Out(type, missed),
               !.hist.error = Out(type, missed)]

\* plugin_dict['type'] of every plugin of the step, group by group.
TypesOf(step) ==
    [gi \in 1..Len(step.groups) |->
        [k \in 1..Len(step.groups[gi].plugins) |-> step.groups[gi].plugins[k].type]]

\* Variant: a step yielded before is yielded with the plugin types it had then.
YieldedAsBefore(at, b) ==
    IF b.raised # "" THEN Raised(at, b.raised, NoMiss)
    ELSE LET seen == {i \in 1..Len(at.hist.presented) : at.hist.presented[i] = at.index}
             types == IF seen = {} THEN TypesOf(b.step_dict)
                      ELSE at.hist.shown[CHOOSE i \in seen : \A j \in seen : i <= j]
         IN [at EXCEPT !.pc = "step",
                       !.step_dict =
                           [b.step_dict EXCEPT !.groups =
                               [gi \in 1..Len(b.step_dict.groups) |->
                                   [b.step_dict.groups[gi] EXCEPT !.plugins =
                                       [k \in 1..Len(b.step_dict.groups[gi].plugins) |->
                                           [b.step_dict.groups[gi].plugins[k]
                                               EXCEPT !.type = types[gi][k]]]]]],
                       !.id_dict = b.id_dict, !.uuid_count = b.drawn,
                       !.out = Out("step", NoMiss),
                       !.hist.presented = Append(@, at.index),
                       !.hist.shown = Append(@, types)]

\* The step was built: it is yielded, unless a type resolution raised.
Yielded(at, b) ==
    IF b.raised # "" THEN Raised(at, b.raised, NoMiss)
    ELSE [at EXCEPT !.pc = "step", !.step_dict = b.step_dict,
                    !.id_dict = b.id_dict, !.uuid_count = b.drawn,
                    !.out = Out("step", NoMiss),
                    !.hist.presented = Append(@, at.index),
                    !.hist.shown = Append(@, TypesOf(b.step_dict))]

\* conditionalFileInstalls were processed: the generator returns.
Ended(at, c) ==
    IF c.raised # "" THEN Raised([at EXCEPT !.file_maps = c.maps], c.raised, NoMiss)
    ELSE [at EXCEPT !.pc = "done", !.file_maps = c.maps,
                    !.out = Out("StopIteration", NoMiss)]

\* The "next visible index" loop gave nv.
Scanned(at, root, dest_, game_version_, step_list, nv) ==
    IF nv.raised # "" THEN Raised(at, nv.raised, NoMiss)
    ELSE IF nv.found
    THEN Yielded(at, BuildStep(step_list[nv.index + 1], at.uuid_count,
                               at.flag_maps, dest_, game_version_))
    ELSE Ended(at, ConditionalInstalls(root.conditionalFileInstalls, 1,
                                       at.flag_maps, at.file_maps,
                                       dest_, game_version_))

Scan(st, root, dest_, game_version_, step_list, nv) ==
    Scanned([st EXCEPT !.index = nv.index, !.hist.scan_from = st.index],
            root, dest_, game_version_, step_list, nv)

\* Variant: every scan for the next visible step starts before the first.
EnterListFromStart(st, root, dest_, game_version_, step_list) ==
    Scan(st, root, dest_, game_version_, step_list,
         NextVisible(step_list, -1, st.flag_maps, dest_, game_version_))

EnterList(st, root, dest_, game_version_, step_list) ==
    Scan(st, root, dest_, game_version_, step_list,
         NextVisible(step_list, st.index, st.flag_maps, dest_, game_version_))

\* One pass from the top of "while True" to the next yield of a step, or
\* through conditionalFileInstalls to the end of the generator.
Enter(st, root, dest_, game_version_) ==
    EnterList(st, root, dest_, game_version_, OrderedList(root.installSteps))

\* Variant: the branch without collected_files.maps.pop(0).
BackwardKeepsFiles(st) ==
    [st EXCEPT
        !.index = IF st.previous_index # <<>>
                  THEN st.previous_index[Len(st.previous_index)] - 1 ELSE -1,
        !.previous_index = IF st.previous_index # <<>>
                           THEN SubSeq(@, 1, Len(@) - 1) ELSE @,
        !.flag_maps = IF Len(@) > 1 THEN Tail(@) ELSE @,
        !.hist.backs = @ + 1,
        !.hist.live = IF @ # <<>> THEN Tail(@) ELSE @,
        !.hist.prev = st.hist.last,
        !.hist.last = "back"]

\* Variant: collected_files.maps is popped down to one layer, as flag_states is.
BackwardToBase(st) ==
    [st EXCEPT
        !.index = IF st.previous_index # <<>>
                  THEN st.previous_index[Len(st.previous_index)] - 1 ELSE -1,
        !.previous_index = IF st.previous_index # <<>>
                           THEN SubSeq(@, 1, Len(@) - 1) ELSE @,
        !.flag_maps = IF Len(@) > 1 THEN Tail(@) ELSE @,
        !.file_maps = IF Len(@) > 1 THEN Tail(@) ELSE @,
        !.hist.backs = @ + 1,
        !.hist.live = IF @ # <<>> THEN Tail(@) ELSE @,
        !.hist.prev = st.hist.last,
        !.hist.last = "back"]

\* Variant: index = previous_index.pop(), without the "- 1".
BackwardNoRewind(st) ==
    [st EXCEPT
        !.index = IF st.previous_index # <<>>
                  THEN st.previous_index[Len(st.previous_index)] ELSE -1,
        !.previous_index = IF st.previous_index # <<>>
                           THEN SubSeq(@, 1, Len(@) - 1) ELSE @,
        !.flag_maps = IF Len(@) > 1 THEN Tail(@) ELSE @,
        !.file_maps = IF Len(@) > 2 THEN Tail(@) ELSE @,
        !.hist.backs = @ + 1,
        !.hist.live = IF @ # <<>> THEN Tail(@) ELSE @,
        !.hist.prev = st.hist.last,
        !.hist.last = "back"]

\* Variant: the branch without self._flag_states.maps.pop(0).
BackwardKeepsFlags(st) ==
    [st EXCEPT
        !.index = IF st.previous_index # <<>>
                  THEN st.previous_index[Len(st.previous_index)] - 1 ELSE -1,
        !.previous_index = IF st.previous_index # <<>>
                           THEN SubSeq(@, 1, Len(@) - 1) ELSE @,
        !.file_maps = IF Len(@) > 2 THEN Tail(@) ELSE @,
        !.hist.backs = @ + 1,
        !.hist.live = IF @ # <<>> THEN Tail(@) ELSE @,
        !.hist.prev = st.hist.last,
        !.hist.last = "back"]

\* Variant: the index is read from previous_index and left on it.
BackwardKeepsIndex(st) ==
    [st EXCEPT
        !.index = IF st.previous_index # <<>>
                  THEN st.previous_index[Len(st.previous_index)] - 1 ELSE -1,
        !.flag_maps = IF Len(@) > 1 THEN Tail(@) ELSE @,
        !.file_maps = IF Len(@) > 2 THEN Tail(@) ELSE @,
        !.hist.backs = @ + 1,
        !.hist.live = IF @ # <<>> THEN Tail(@) ELSE @,
        !.hist.prev = st.hist.last,
        !.hist.last = "back"]

\* "check if previous step was requested": the branch taken for
\* {'previous_step': True}, up to its continue.
Backward(st) ==
    [st EXCEPT
        !.index = IF st.previous_index # <<>>
                  THEN st.previous_index[Len(st.previous_index)] - 1 ELSE -1,
        !.previous_index = IF st.previous_index # <<>>
                           THEN SubSeq(@, 1, Len(@) - 1) ELSE @,
        !.flag_maps = IF Len(@) > 1 THEN Tail(@) ELSE @,
        !.file_maps = IF Len(@) > 2 THEN Tail(@) ELSE @,
        !.hist.backs = @ + 1,
        !.hist.live = IF @ # <<>> THEN Tail(@) ELSE @,
        !.hist.prev = st.hist.last,
        !.hist.last = "back"]

\* Variant: the index of the answered step is not kept.
AppendedOff(st) ==
    [st EXCEPT !.hist.prev = st.hist.last, !.hist.last = "error"]

\* previous_index.append(index)
Appended(st) ==
    [st EXCEPT !.previous_index = Append(@, st.index),
               !.hist.prev = st.hist.last,
               !.hist.last = "error"]

\* Variant: a layer without flags is not put in front of flag_states.
PushedNonEmpty(st, plugin_ids, chains) ==
    [st EXCEPT
        !.file_maps = <<NestedDict(chains.files)>> \o @,
        !.flag_maps = IF ChainDict(chains.flags) = EmptyDict THEN @
                      ELSE <<ChainDict(chains.flags)>> \o @,
        !.hist.last = "answer",
        !.hist.live = <<[index |-> st.index,
                         ids |-> plugin_ids,
                         plugins |-> [i \in 1..Len(plugin_ids) |->
                                         st.id_dict[plugin_ids[i]]]]>> \o @,
        !.hist.snap = [flags |-> FlagStates(st.flag_maps),
                       files |-> CollectedFiles(st.file_maps),
                       index |-> st.index]]

\* The two new front layers are inserted.
Pushed(st, plugin_ids, chains) ==
    [st EXCEPT
        !.file_maps = <<NestedDict(chains.files)>> \o @,
        !.flag_maps = <<ChainDict(chains.flags)>> \o @,
        !.hist.last = "answer",
        !.hist.live = <<[index |-> st.index,
                         ids |-> plugin_ids,
                         plugins |-> [i \in 1..Len(plugin_ids) |->
                                         st.id_dict[plugin_ids[i]]]]>> \o @,
        !.hist.snap = [flags |-> FlagStates(st.flag_maps),
                       files |-> CollectedFiles(st.file_maps),
                       index |-> st.index]]

\* Variant: the files and flags of every plugin of the step are collected.
CollectedAll(st, plugin_ids) ==
    Pushed(st, plugin_ids,
           StepChains([i \in 1..Cardinality(DOMAIN st.id_dict) |->
                          CHOOSE x \in DOMAIN st.id_dict :
                              Cardinality({y \in DOMAIN st.id_dict : y < x}) = i - 1],
                      st.id_dict, 1, <<EmptyDict>>, <<EmptyDict>>))

\* "collect files and flags" for the plugin ids of the sorted answer.
Collected(st, plugin_ids) ==
    Pushed(st, plugin_ids,
           StepChains(plugin_ids, st.id_dict, 1, <<EmptyDict>>, <<EmptyDict>>))

\* "sort groups and plugins in answer" gave n.
Sorted(st, n) ==
    IF n.raised # "" THEN Raised(st, n.raised, NoMiss)
    ELSE Collected(st, Flattened(n.items))

\* "validate answer" gave v.
Validated(st, v) ==
    IF v.raised # "" THEN Raised(st, v.raised, NoMiss)
    ELSE Sorted(st, Normalized(st.step_dict, v.groups))

\* The rest of the loop body for any other answer: validation, sorting and
\* the collection of files and flags into two new front layers.
Forward(st) ==
    Validated(Appended(st), ValidateLoop(st.step_dict, 1, st.answer.groups))

\* The answer was handled: the loop goes on unless an exception ended it.
Continue(st, root, dest_, game_version_) ==
    IF st.pc = "raised" THEN st ELSE Enter(st, root, dest_, game_version_)

\* Variant: a back request is validated as any other answer is, first.
HandledValidatesBack(st) ==
    IF ~st.answer.given
    THEN Raised([st EXCEPT !.hist.prev = st.hist.last, !.hist.last = "error"],
                "AttributeError", NoMiss)
    ELSE IF /\ st.answer.previous_step = "True"
            /\ ValidateLoop(st.step_dict, 1, st.answer.groups).raised = ""
    THEN Backward(st)
    ELSE Forward(st)

\* The loop body after the bare yield, up to the next pass.
Handled(st) ==
    IF ~st.answer.given
    THEN Raised([st EXCEPT !.hist.prev = st.hist.last, !.hist.last = "error"],
                "AttributeError", NoMiss)
    ELSE IF st.answer.previous_step = "True" THEN Backward(st)
    ELSE Forward(st)

\* The generator resumed from the bare yield: the answer is processed and
\* the loop is entered again.
Process(st, root, dest_, game_version_) ==
    Continue(Handled(st), root, dest_, game_version_)

\* Variant: requiredInstallFiles collected before moduleDependencies is asserted.
PrimedCollectsFirst(st, root, o) ==
    IF o.raised # ""
    THEN Raised([st EXCEPT !.file_maps = CollectFiles(root.requiredInstallFiles, @)],
                o.raised, o.missed)
    ELSE [st EXCEPT !.pc = "primed",
                    !.file_maps = CollectFiles(root.requiredInstallFiles, @),
                    !.out = Out("None", NoMiss),
                    !.hist.primed = TRUE]

\* The generator started: moduleDependencies asserted against flag_states.
PrimedWith(st, root, o) ==
    IF o.raised # "" THEN Raised(st, o.raised, o.missed)
    ELSE [st EXCEPT !.pc = "primed",
                    !.file_maps = CollectFiles(root.requiredInstallFiles, @),
                    !.out = Out("None", NoMiss),
                    !.hist.primed = TRUE]

\* The generator from its start to the first yield.
Primed(st, root, dest_, game_version_) ==
    PrimedWith(st, root,
               AssertDependencies(root.moduleDependencies,
                                  <<FlagStates(st.flag_maps)>>, dest_, game_version_))

-----------------------------------------------------------------------------
(* Configurations and caller inputs                                        *)

Typed(type) == TypeDescriptor(type, "", <<>>)

\* One step, one SelectExactlyOne group of two plugins with one file each,
\* behind a moduleDependencies that asks for game version 1.5.
ConfOneStep ==
    Config(Deps("And", <<GameDep("1.5")>>),
           <<>>,
           Container("Explicit", <<
               InstallStep("A", NoElem, Container("Explicit", <<
                   Group("A", "SelectExactlyOne", Container("Explicit", <<
                       Plugin("A", Typed("Optional"),
                              <<File("a.txt", "data/a.txt", "")>>, <<>>),
                       Plugin("B", Typed("Optional"),
                              <<File("b.txt", "data/b.txt", "")>>, <<>>)>>))>>))>>),
           <<>>)

\* Three steps behind the same moduleDependencies.  The first sets UseX;
\* the second is visible only with UseX == "yes" and overrides it; the third
\* is always visible.  Required files and two conditional patterns, one for
\* each flag, complete it.
ConfThreeSteps ==
    Config(Deps("And", <<GameDep("1.5")>>),
           <<File("req.txt", "data/req.txt", "")>>,
           Container("Explicit", <<
               InstallStep("A", NoElem, Container("Explicit", <<
                   Group("A", "SelectExactlyOne", Container("Explicit", <<
                       Plugin("A", Typed("Optional"),
                              <<File("a.txt", "data/a.txt", "")>>,
                              <<Flag("UseX", "yes")>>),
                       Plugin("B", Typed("Optional"),
                              <<File("b.txt", "data/b.txt", "")>>, <<>>)>>))>>)),
               InstallStep("B", Deps("", <<FlagDep("UseX", "yes")>>),
                           Container("Explicit", <<
                   Group("A", "SelectAtMostOne", Container("Explicit", <<
                       Plugin("A", Typed("Optional"),
                              <<File("c.txt", "data/c.txt", "5")>>,
                              <<Flag("UseX", "no")>>)>>))>>)),
               InstallStep("C", NoElem, Container("Explicit", <<
                   Group("A", "SelectAtLeastOne", Container("Explicit", <<
                       Plugin("A", Typed("Optional"),
                              <<File("d.txt", "data/d.txt", "1")>>, <<>>),
                       Plugin("B", Typed("Optional"),
                              <<File("e.txt", "data/e.txt", "")>>,
                              <<Flag("UseY", "yes")>>)>>))>>))>>),
           <<FilePattern(Deps("And", <<FlagDep("UseX", "yes")>>),
                         <<File("x.txt", "data/x.txt", "")>>),
             FilePattern(Deps("And", <<FlagDep("UseY", "yes")>>),
                         <<File("y.txt", "data/y.txt", "")>>)>>)

GroupTypes ==
    {"SelectExactlyOne", "SelectAtMostOne", "SelectAtLeastOne", "SelectAll",
     "SelectAny"}

\* One step with one group of the given type: a Required, an Optional and a
\* NotUsable plugin, each with a file and a flag of its own.
ConfKinds(type) ==
    Config(Deps("And", <<GameDep("1.5")>>),
           <<>>,
           Container("Explicit", <<
               InstallStep("A", NoElem, Container("Explicit", <<
                   Group("A", type, Container("Explicit", <<
                       Plugin("A", Typed("Required"),
                              <<File("ra.txt", "data/ra.txt", "")>>,
                              <<Flag("GotA", "yes")>>),
                       Plugin("B", Typed("Optional"),
                              <<File("ob.txt", "data/ob.txt", "")>>,
                              <<Flag("GotB", "yes")>>),
                       Plugin("C", Typed("NotUsable"),
                              <<File("nc.txt", "data/nc.txt", "")>>,
                              <<Flag("GotC", "yes")>>)>>))>>))>>),
           <<>>)

\* One step with a SelectAny and a SelectAll group of two Optional plugins;
\* groups and plugins are listed in Descending order of their names.
ConfTwoGroups ==
    Config(Deps("And", <<GameDep("1.5")>>),
           <<>>,
           Container("Explicit", <<
               InstallStep("A", NoElem, Container("Descending", <<
                   Group("A", "SelectAny", Container("Descending", <<
                       Plugin("A", Typed("Optional"),
                              <<File("aa.txt", "data/aa.txt", "")>>, <<>>),
                       Plugin("B", Typed("Optional"),
                              <<File("ab.txt", "data/ab.txt", "")>>, <<>>)>>)),
                   Group("B", "SelectAll", Container("Descending", <<
                       Plugin("A", Typed("Optional"),
                              <<File("ba.txt", "data/ba.txt", "")>>, <<>>),
                       Plugin("B", Typed("Optional"),
                              <<File("bb.txt", "data/bb.txt", "")>>, <<>>)>>))>>))>>),
           <<>>)

\* Two steps.  The plugins of the first set UseX and UseY; the plugin of the
\* second has a dependencyType: Required with UseX, NotUsable with UseY,
\* Optional by default.
ConfTyped ==
    Config(Deps("And", <<GameDep("1.5")>>),
           <<>>,
           Container("Explicit", <<
               InstallStep("A", NoElem, Container("Explicit", <<
                   Group("A", "SelectAny", Container("Explicit", <<
                       Plugin("A", Typed("Optional"), <<>>, <<Flag("UseX", "yes")>>),
                       Plugin("B", Typed("Optional"), <<>>,
                              <<Flag("UseY", "yes")>>)>>))>>)),
               InstallStep("B", NoElem, Container("Explicit", <<
                   Group("A", "SelectAny", Container("Explicit", <<
                       Plugin("P",
                              TypeDescriptor("", "Optional", <<
                                  TypePattern(Deps("And", <<FlagDep("UseX", "yes")>>),
                                              "Required"),
                                  TypePattern(Deps("And", <<FlagDep("UseY", "yes")>>),
                                              "NotUsable")>>),
                              <<File("p.txt", "data/p.txt", "")>>, <<>>)>>))>>))>>),
           <<>>)

\* One step and two patterns that all map the source s.txt, as the required
\* files do.  The plugins of the first group set UseX to different values,
\* the plugin of the second group sets UseY; the first pattern asks for
\* UseX == "yes", the second for UseY == "yes".
ConfShared ==
    Config(Deps("And", <<GameDep("1.5")>>),
           <<File("s.txt", "data/req.txt", "")>>,
           Container("Explicit", <<
               InstallStep("A", NoElem, Container("Explicit", <<
                   Group("A", "SelectAny", Container("Explicit", <<
                       Plugin("A", Typed("Optional"),
                              <<File("s.txt", "data/a.txt", "")>>,
                              <<Flag("UseX", "no")>>),
                       Plugin("B", Typed("Optional"),
                              <<File("s.txt", "data/b.txt", "")>>,
                              <<Flag("UseX", "yes")>>)>>)),
                   Group("B", "SelectAny", Container("Explicit", <<
                       Plugin("C", Typed("Optional"),
                              <<File("s.txt", "data/c.txt", "")>>,
                              <<Flag("UseY", "yes")>>)>>))>>))>>),
           <<FilePattern(Deps("And", <<FlagDep("UseX", "yes")>>),
                         <<File("s.txt", "data/p1.txt", "")>>),
             FilePattern(Deps("And", <<FlagDep("UseY", "yes")>>),
                         <<File("s.txt", "data/p2.txt", "")>>)>>)

Configs ==
    {ConfOneStep, ConfThreeSteps, ConfTwoGroups, ConfTyped, ConfShared}
    \cup {ConfKinds(type) : type \in GroupTypes}

GameVersions == {NoVersion, Version("1.4.2"), Version("1.5")}

Dests == {NoDest}

\* The lists of at most n elements of S.
SeqsUpTo(S, n) == UNION {[1..k -> S] : k \in 0..n}

\* An identifier no uuid4() call of the run returned.
ForeignId == 0

\* An answer kept from the first presentation of the run, whose group got
\* the first identifier and its first plugin the second: that plugin chosen.
StaleEntries(step) ==
    IF \A i \in 1..Len(step.groups) : step.groups[i].id > 2
    THEN {[k \in {1} |-> <<2>>]} ELSE {}

\* The group entries a caller may send for the step: for any of its groups,
\* a list of at most MaxPicks of the group's plugin ids (in any order, with
\* repetitions) or a list holding a foreign id; or one key that is no group;
\* or the entries of a stale answer.
GroupEntries(step) ==
    LET gids == {step.groups[i].id : i \in 1..Len(step.groups)}
        group(gid) == step.groups[CHOOSE i \in 1..Len(step.groups) :
                                      step.groups[i].id = gid]
        pids(gid) == {group(gid).plugins[k].id : k \in 1..Len(group(gid).plugins)}
        lists(gid) == SeqsUpTo(pids(gid), MaxPicks) \cup {<<ForeignId>>}
        all == UNION {lists(gid) : gid \in gids}
    IN UNION {{f \in [S -> all] : \A gid \in S : f[gid] \in lists(gid)} :
               S \in SUBSET gids}
       \cup {[k \in {ForeignId} |-> <<>>]}
       \cup StaleEntries(step)

AnswerChoices(step) ==
    {Answer(previous_step, groups) :
        previous_step \in {"", "False", "True"}, groups \in GroupEntries(step)}

-----------------------------------------------------------------------------
(* The installer driven by its caller                                      *)

Init ==
    /\ conf \in Configs
    /\ dest \in Dests
    /\ game_version \in GameVersions
    /\ pc = "start"
    /\ flag_maps = <<EmptyDict>>
    /\ file_maps = <<EmptyDict>>
    /\ index = -1
    /\ previous_index = <<>>
    /\ step_dict = NoStep
    /\ id_dict = EmptyDict
    /\ answer = NoAnswer
    /\ uuid_count = 0
    /\ out = Out("None", NoMiss)
    /\ hist = HistInit
    /\ dep_in = NoElem
    /\ dep_out = Outcome("", NoMiss, 0)
    /\ view = NoView
    /\ list_in = NoList
    /\ list_out = <<>>

\* installer.send(None) on the new generator
Prime ==
    /\ pc = "start"
    /\ Apply(Primed(Cur, conf, dest, game_version))
    /\ UNCHANGED <<conf, dest, game_version, dep_in, dep_out, view, list_in,
                   list_out>>

\* next(installer) after priming: the locals are set and the loop is entered
PullFirst ==
    /\ pc = "primed"
    /\ Apply(Enter([Cur EXCEPT !.previous_index = <<0>>, !.index = -1],
                   conf, dest, game_version))
    /\ UNCHANGED <<conf, dest, game_version, dep_in, dep_out, view, list_in,
                   list_out>>

\* Variant: no bare yield, send(answer) runs on to the next step or the end.
SendRunsOn ==
    /\ pc = "step"
    /\ \E a \in AnswerChoices(step_dict) :
          /\ a.previous_step = "True" => hist.backs < MaxBack
          /\ Apply(Process([Cur EXCEPT !.answer = a], conf, dest, game_version))
    /\ UNCHANGED <<conf, dest, game_version, dep_in, dep_out, view, list_in,
                   list_out>>

\* Variant: send(answer) validates the answer before it returns.
SendValidates ==
    /\ pc = "step"
    /\ \E a \in AnswerChoices(step_dict) :
          /\ a.previous_step = "True" => hist.backs < MaxBack
          /\ answer' = a
          /\ LET v == ValidateLoop(step_dict, 1, a.groups)
             IN IF a.previous_step # "True" /\ v.raised # ""
                THEN /\ pc' = "raised"
                     /\ out' = Out(v.raised, NoMiss)
                     /\ hist' = [hist EXCEPT !.error = Out(v.raised, NoMiss),
                                             !.prev = hist.last, !.last = "error"]
                ELSE /\ pc' = "sent"
                     /\ out' = Out("None", NoMiss)
                     /\ hist' = hist
    /\ UNCHANGED <<conf, dest, game_version, flag_maps, file_maps, index,
                   previous_index, step_dict, id_dict, uuid_count,
                   dep_in, dep_out, view, list_in, list_out>>

\* installer.send(answer) at a yielded step: runs to the bare yield
Send ==
    /\ pc = "step"
    /\ \E a \in AnswerChoices(step_dict) :
          /\ a.previous_step = "True" => hist.backs < MaxBack
          /\ answer' = a
    /\ pc' = "sent"
    /\ out' = Out("None", NoMiss)
    /\ UNCHANGED <<conf, dest, game_version, flag_maps, file_maps, index,
                   previous_index, step_dict, id_dict, uuid_count, hist,
                   dep_in, dep_out, view, list_in, list_out>>

\* next(installer) at a yielded step, without an answer: answer is None
SkipSend ==
    /\ pc = "step"
    /\ answer' = NoAnswer
    /\ pc' = "sent"
    /\ out' = Out("None", NoMiss)
    /\ UNCHANGED <<conf, dest, game_version, flag_maps, file_maps, index,
                   previous_index, step_dict, id_dict, uuid_count, hist,
                   dep_in, dep_out, view, list_in, list_out>>

\* next(installer) at the bare yield: the answer is processed
Pull ==
    /\ pc = "sent"
    /\ Apply(Process(Cur, conf, dest, game_version))
    /\ UNCHANGED <<conf, dest, game_version, dep_in, dep_out, view, list_in,
                   list_out>>

\* next(installer) on a generator that has ended: StopIteration
PullEnded ==
    /\ pc \in {"done", "raised"}
    /\ out' = Out("StopIteration", NoMiss)
    /\ UNCHANGED <<conf, dest, game_version, pc, flag_maps, file_maps, index,
                   previous_index, step_dict, id_dict, answer, uuid_count, hist,
                   dep_in, dep_out, view, list_in, list_out>>

Next == Prime \/ PullFirst \/ Send \/ SkipSend \/ Pull \/ PullEnded

Spec == Init /\ [][Next]_vars

-----------------------------------------------------------------------------
(* The two stores under arbitrary layers                                   *)

\* The most layers of collected_files.maps.
MaxLayers == 3

Sources == {"a.txt", "b.txt"}

Destinations == {"data/x.txt", "data/y.txt"}

Priorities == {"1", "5", "9", "10"}

\* The files lists collected: empty, or one file item.
FileLists ==
    {<<>>} \cup {<<File(source, destination, priority)>> :
                    source \in Sources, destination \in Destinations,
                    priority \in Priorities}

FlagNames == {"UseX", "UseY"}

FlagValues == {"", "yes", "no"}

\* The conditionFlags lists collected: empty, or one flag item.
FlagLists ==
    {<<>>} \cup {<<Flag(name, text)>> : name \in FlagNames, text \in FlagValues}

\* pc tells which of the two stores receives the layers.
InitFiles ==
    /\ conf = ConfOneStep
    /\ dest = NoDest
    /\ game_version = NoVersion
    /\ pc \in {"files", "flags"}
    /\ flag_maps = <<EmptyDict>>
    /\ file_maps = <<EmptyDict>>
    /\ index = -1
    /\ previous_index = <<>>
    /\ step_dict = NoStep
    /\ id_dict = EmptyDict
    /\ answer = NoAnswer
    /\ uuid_count = 0
    /\ out = Out("None", NoMiss)
    /\ hist = HistInit
    /\ dep_in = NoElem
    /\ dep_out = Outcome("", NoMiss, 0)
    /\ view = NoView
    /\ list_in = NoList
    /\ list_out = <<>>

\* _collect_files(file_list, self._collected_files)
Collect ==
    /\ pc = "files"
    /\ Len(file_maps) < MaxLayers
    /\ \E file_list \in FileLists : file_maps' = CollectFiles(file_list, file_maps)
    /\ UNCHANGED <<conf, dest, game_version, pc, flag_maps, index, previous_index,
                   step_dict, id_dict, answer, uuid_count, out, hist, dep_in,
                   dep_out, list_in, list_out>>
    /\ view' = NoView

\* self._collected_files.maps.pop(0), as back navigation does it
PopFront ==
    /\ pc = "files"
    /\ Len(file_maps) > 2
    /\ file_maps' = Tail(file_maps)
    /\ UNCHANGED <<conf, dest, game_version, pc, flag_maps, index, previous_index,
                   step_dict, id_dict, answer, uuid_count, out, hist, dep_in,
                   dep_out, list_in, list_out>>
    /\ view' = NoView

\* _collect_flags(flag_list, self._flag_states), for at most MaxLayers layers
\* in front of the first, which no flag is ever put in
CollectFlagLayer ==
    /\ pc = "flags"
    /\ Len(flag_maps) <= MaxLayers
    /\ \E flag_list \in FlagLists : flag_maps' = CollectFlags(flag_list, flag_maps)
    /\ view' = NoView
    /\ UNCHANGED <<conf, dest, game_version, pc, file_maps, index, previous_index,
                   step_dict, id_dict, answer, uuid_count, out, hist, dep_in,
                   dep_out, list_in, list_out>>

\* self._flag_states.maps.pop(0), as back navigation does it
PopFlags ==
    /\ pc = "flags"
    /\ Len(flag_maps) > 1
    /\ flag_maps' = Tail(flag_maps)
    /\ view' = NoView
    /\ UNCHANGED <<conf, dest, game_version, pc, file_maps, index, previous_index,
                   step_dict, id_dict, answer, uuid_count, out, hist, dep_in,
                   dep_out, list_in, list_out>>

\* installer.collected_files
ReadFiles ==
    /\ pc \in {"files", "flags"}
    /\ view' = View("collected_files", FilesRead(file_maps).value)
    /\ file_maps' = FilesRead(file_maps).maps
    /\ UNCHANGED <<conf, dest, game_version, pc, flag_maps, index, previous_index,
                   step_dict, id_dict, answer, uuid_count, out, hist, dep_in,
                   dep_out, list_in, list_out>>

\* installer.flag_states
ReadFlags ==
    /\ pc \in {"files", "flags"}
    /\ view' = View("flag_states", FlagsRead(flag_maps).value)
    /\ flag_maps' = FlagsRead(flag_maps).maps
    /\ UNCHANGED <<conf, dest, game_version, pc, file_maps, index, previous_index,
                   step_dict, id_dict, answer, uuid_count, out, hist, dep_in,
                   dep_out, list_in, list_out>>

NextFiles ==
    Collect \/ PopFront \/ CollectFlagLayer \/ PopFlags \/ ReadFiles \/ ReadFlags

SpecFiles == InitFiles /\ [][NextFiles]_vars

\* The sources that a layer of the store sends to destination d in bucket p.
SourcesTo(d, p) ==
    {x \in Sources : \E i \in 1..Len(file_maps) :
        /\ p \in DOMAIN file_maps[i]
        /\ x \in DOMAIN file_maps[i][p]
        /\ file_maps[i][p][x] = d}

\* C7: when the store holds two files for one destination, one in bucket 5
\* and one in bucket 1, collected_files has the destination once, with the
\* source of the bucket-5 file, in whatever order and layers they were pushed.
C7_HigherBucketWinsDestination ==
    \A d \in Destinations :
        (/\ Cardinality(SourcesTo(d, "5")) = 1
         /\ Cardinality(SourcesTo(d, "1")) = 1
         /\ SourcesTo(d, "9") = {} /\ SourcesTo(d, "10") = {})
        => {x \in DOMAIN CollectedFiles(file_maps) :
               CollectedFiles(file_maps)[x] = d} = SourcesTo(d, "5")

\* The number a priority attribute stands for.
Num(priority) == IntOf(CharsOf[priority], 0)

\* The buckets of the store that hold key.
BucketsOf(key) ==
    {p \in ChainKeys(file_maps) : key \in DOMAIN NestedGetItem(file_maps, p)}

\* C8: buckets rank by the number of their priority: the value
\* collected_files gives a key is the one of the numerically highest bucket
\* that holds the key, also for 10 against 9 and 10 against 5.
C8_NumericPriorityOrder ==
    \A key \in DOMAIN CollectedFiles(file_maps) :
        \A p \in BucketsOf(key) :
            (\A q \in BucketsOf(key) : Num(q) <= Num(p))
            => CollectedFiles(file_maps)[key] = NestedGetItem(file_maps, p)[key]

\* The layers of flag_states.maps that define the flag name.
Defining(name) == {i \in 1..Len(flag_maps) : name \in DOMAIN flag_maps[i]}

\* The most recently pushed of them: layers are inserted at the front.
MostRecent(name) == CHOOSE i \in Defining(name) : \A j \in Defining(name) : i <= j

\* C21: the dict read from flag_states has the names that some layer
\* defines and no other, each with the value of the most recently pushed
\* layer that defines it.
C21_FlattenedFlags ==
    view.kind = "flag_states" =>
        /\ DOMAIN view.value = {name \in FlagNames : Defining(name) # {}}
        /\ \A name \in DOMAIN view.value :
              view.value[name] = flag_maps[MostRecent(name)][name]

\* UseX is set by the two older layers to different values and not by the
\* newest; UseY is set by no layer.
C21_Witness ==
    /\ view.kind = "flag_states"
    /\ Defining("UseX") = {2, 3} /\ Defining("UseY") = {}
    /\ flag_maps[2]["UseX"] = "no" /\ flag_maps[3]["UseX"] = "yes"
    /\ view.value = DictSet(EmptyDict, "UseX", "no")

Holding(p, key) ==
    {i \in 1..Len(file_maps) :
        p \in DOMAIN file_maps[i] /\ key \in DOMAIN file_maps[i][p]}

\* C31: the bucket the store gives for a priority holds the keys that some
\* layer holds in that bucket and no other, each with the value of the
\* front-most layer that holds it; with one bucket on the store, that is the
\* dict collected_files returns.
C31_BucketFrontWins ==
    /\ \A p \in ChainKeys(file_maps) :
          /\ DOMAIN NestedGetItem(file_maps, p)
                = {key \in Sources : Holding(p, key) # {}}
          /\ \A key \in DOMAIN NestedGetItem(file_maps, p) :
                \E i \in Holding(p, key) :
                    /\ \A j \in Holding(p, key) : i <= j
                    /\ NestedGetItem(file_maps, p)[key] = file_maps[i][p][key]
    /\ (view.kind = "collected_files" /\ ChainKeys(file_maps) # {}) =>
          \A p \in ChainKeys(file_maps) :
              ChainKeys(file_maps) = {p} => view.value = NestedGetItem(file_maps, p)

\* Two layers hold a.txt in bucket 5 with different destinations, and
\* collected_files was read.
C31_Witness ==
    /\ view.kind = "collected_files"
    /\ Holding("5", "a.txt") = {1, 2}
    /\ file_maps[1]["5"]["a.txt"] = "data/x.txt"
    /\ file_maps[2]["5"]["a.txt"] = "data/y.txt"
    /\ view.value = DictSet(EmptyDict, "a.txt", "data/x.txt")

-----------------------------------------------------------------------------
(* _ordered_list on its own                                                *)

\* The most children of a container.
MaxChildren == 3

ChildNames == {"A", "B", "a"}

\* The children with these name attributes, each with its place in the
\* document.
Children(names) == [i \in 1..Len(names) |-> [name |-> names[i], at |-> i]]

Containers ==
    {Container(order, Children(names)) :
        order \in {"", "Explicit", "Ascending", "Descending"},
        names \in SeqsUpTo(ChildNames, MaxChildren)}

InitOrder ==
    /\ conf = ConfOneStep
    /\ dest = NoDest
    /\ game_version = NoVersion
    /\ pc = "order"
    /\ flag_maps = <<EmptyDict>>
    /\ file_maps = <<EmptyDict>>
    /\ index = -1
    /\ previous_index = <<>>
    /\ step_dict = NoStep
    /\ id_dict = EmptyDict
    /\ answer = NoAnswer
    /\ uuid_count = 0
    /\ out = Out("None", NoMiss)
    /\ hist = HistInit
    /\ dep_in = NoElem
    /\ dep_out = Outcome("", NoMiss, 0)
    /\ view = NoView
    /\ list_in \in Containers
    /\ list_out = <<>>

\* _ordered_list(root)
Order ==
    /\ pc = "order"
    /\ list_out' = OrderedList(list_in)
    /\ pc' = "ordered"
    /\ UNCHANGED <<conf, dest, game_version, flag_maps, file_maps, index,
                   previous_index, step_dict, id_dict, answer, uuid_count, out,
                   hist, dep_in, dep_out, view, list_in>>

NextOrder == Order

SpecOrder == InitOrder /\ [][NextOrder]_vars

\* The place of a name among the names, by code point.
NameRank ==
    [name \in ChildNames |-> IF name = "A" THEN 1 ELSE IF name = "B" THEN 2 ELSE 3]

\* Whether the container asks for the descending order.
Descends == list_in.order \notin {"", "Ascending"}

\* C32: an Explicit container gives its children in document order; any
\* other gives the same children sorted by name, ascending when the order is
\* Ascending or not given and descending otherwise, and children with equal
\* names come in document order in both cases.
C32_OrderedChildren ==
    pc = "ordered" =>
        /\ Len(list_out) = Len(list_in.children)
        /\ {list_out[i] : i \in 1..Len(list_out)}
              = {list_in.children[i] : i \in 1..Len(list_in.children)}
        /\ list_in.order = "Explicit" => list_out = list_in.children
        /\ list_in.order # "Explicit" =>
              \A i, j \in 1..Len(list_out) :
                  i < j =>
                      /\ ~Descends =>
                            NameRank[list_out[i].name] <= NameRank[list_out[j].name]
                      /\ Descends =>
                            NameRank[list_out[i].name] >= NameRank[list_out[j].name]
                      /\ list_out[i].name = list_out[j].name =>
                            list_out[i].at < list_out[j].at

\* A, a, A in Descending order: a, then the two A as in the document.
C32_Witness ==
    /\ pc = "ordered"
    /\ list_in = Container("Descending", Children(<<"A", "a", "A">>))
    /\ list_out = <<[name |-> "a", at |-> 2], [name |-> "A", at |-> 1],
                    [name |-> "A", at |-> 3]>>

-----------------------------------------------------------------------------
(* _assert_dependencies on its own                                         *)

\* The most checks of a dependencies element.
MaxChecks == 2

Leaves ==
    {FlagDep("UseX", "yes"), GameDep("1.5"),
     FileDep("x.esp", "Active"), FileDep("x.esp", "Inactive"),
     FileDep("x.esp", "Missing")}

\* Nested dependencies elements of one check.
Nested ==
    {Deps(operator, <<check>>) :
        operator \in {"And", "Or"}, check \in {FlagDep("UseX", "yes"), GameDep("1.5")}}

DepTrees ==
    {Deps(operator, checks) :
        operator \in {"", "And", "Or"},
        checks \in SeqsUpTo(Leaves \cup Nested, MaxChecks)}

InitDep ==
    /\ conf = ConfOneStep
    /\ dest \in {NoDest, Dest({}), Dest({"x.esp"})}
    /\ game_version \in GameVersions
    /\ pc = "depend"
    /\ flag_maps \in {<<EmptyDict>>, <<DictSet(EmptyDict, "UseX", "yes")>>}
    /\ file_maps = <<EmptyDict>>
    /\ index = -1
    /\ previous_index = <<>>
    /\ step_dict = NoStep
    /\ id_dict = EmptyDict
    /\ answer = NoAnswer
    /\ uuid_count = 0
    /\ out = Out("None", NoMiss)
    /\ hist = HistInit
    /\ dep_in \in DepTrees
    /\ dep_out = Outcome("", NoMiss, 0)
    /\ view = NoView
    /\ list_in = NoList
    /\ list_out = <<>>

\* _assert_dependencies(depend, flag_states, dest, game_version)
Evaluate ==
    /\ pc = "depend"
    /\ dep_out' = AssertDependencies(dep_in, flag_maps, dest, game_version)
    /\ pc' = "evaluated"
    /\ UNCHANGED <<conf, dest, game_version, flag_maps, file_maps, index,
                   previous_index, step_dict, id_dict, answer, uuid_count, out,
                   hist, dep_in, view, list_in, list_out>>

NextDep == Evaluate

SpecDep == InitDep /\ [][NextDep]_vars

\* Check i of dep_in taken alone: a nested element by its own evaluation, any
\* other check by its missed_dep.
ChildMissed(i) ==
    IF dep_in.checks[i].tag = "dependencies"
    THEN AssertDependencies(dep_in.checks[i], flag_maps, dest, game_version).missed
    ELSE LeafMissed(dep_in.checks[i], flag_maps, dest, game_version)

ChildRaised(i) ==
    IF dep_in.checks[i].tag = "dependencies"
    THEN AssertDependencies(dep_in.checks[i], flag_maps, dest, game_version).raised
    ELSE IF ChildMissed(i) = NoMiss THEN "" ELSE "MissingDependency"

Unsatisfied == {i \in 1..Len(dep_in.checks) : ChildRaised(i) # ""}

FirstUnsatisfied == CHOOSE i \in Unsatisfied : \A j \in Unsatisfied : i <= j

\* C9: with the And operator the evaluation raises what the first
\* unsatisfied check in document order gives, no check after it is begun,
\* and it returns iff every check is satisfied.
C9_AndShortCircuits ==
    (pc = "evaluated" /\ Operator(dep_in) = "And") =>
        IF Unsatisfied = {}
        THEN dep_out = Outcome("", NoMiss, Len(dep_in.checks))
        ELSE dep_out = Outcome(ChildRaised(FirstUnsatisfied),
                               ChildMissed(FirstUnsatisfied), FirstUnsatisfied)

\* Two unsatisfied checks under And: the first was raised, the second not begun.
C9_Witness ==
    /\ pc = "evaluated" /\ Operator(dep_in) = "And"
    /\ Unsatisfied = {1, 2}
    /\ ChildMissed(1) # ChildMissed(2)
    /\ dep_out.visited = 1

\* C10: with the Or operator the evaluation returns iff at least one check
\* is satisfied, and when every check is unsatisfied it raises what the last
\* check in document order gives.
C10_OrLastFailure ==
    (pc = "evaluated" /\ Operator(dep_in) = "Or") =>
        /\ dep_out.raised = "" <=> Unsatisfied # 1..Len(dep_in.checks)
        /\ (dep_in.checks # <<>> /\ Unsatisfied = 1..Len(dep_in.checks)) =>
               dep_out.missed = ChildMissed(Len(dep_in.checks))

\* Whether some check of dep_in is a nested dependencies element.
HasNested == \E i \in 1..Len(dep_in.checks) : dep_in.checks[i].tag = "dependencies"

\* C11: a nested dependencies element counts as one satisfied or unsatisfied
\* check under its parent's operator: an Or parent with a nested element is
\* satisfied when at least one of its checks is, nested or not, and raises
\* MissingDependency when all of them are unsatisfied.
C11_NestedGroupOneOutcome ==
    (pc = "evaluated" /\ Operator(dep_in) = "Or" /\ HasNested) =>
        IF Unsatisfied = 1..Len(dep_in.checks)
        THEN dep_out.raised = "MissingDependency"
        ELSE dep_out.raised = ""

-----------------------------------------------------------------------------
(* One gameDependency or flagDependency check against arbitrary facts      *)

\* The most layers of flag_states.maps.
MaxFlagLayers == 2

VersionTexts == {"1.2", "1.10", "1.4", "1.4.2", "1.5", "1.5a"}

\* The flag dicts a layer may be: empty, or one flag with a value.
FlagLayers ==
    {EmptyDict} \cup {DictSet(EmptyDict, name, value) :
                        name \in FlagNames, value \in FlagValues}

LeafChecks ==
    {GameDep(version) : version \in VersionTexts}
    \cup {FlagDep(flag, value) : flag \in FlagNames, value \in FlagValues}

InitLeaf ==
    /\ conf = ConfOneStep
    /\ dest = NoDest
    /\ game_version \in {NoVersion} \cup {Version(text) : text \in VersionTexts}
    /\ pc = "depend"
    /\ flag_maps \in UNION {[1..n -> FlagLayers] : n \in 1..MaxFlagLayers}
    /\ file_maps = <<EmptyDict>>
    /\ index = -1
    /\ previous_index = <<>>
    /\ step_dict = NoStep
    /\ id_dict = EmptyDict
    /\ answer = NoAnswer
    /\ uuid_count = 0
    /\ out = Out("None", NoMiss)
    /\ hist = HistInit
    /\ dep_in \in {Deps(operator, <<check>>) :
                     operator \in {"And", "Or"}, check \in LeafChecks}
    /\ dep_out = Outcome("", NoMiss, 0)
    /\ view = NoView
    /\ list_in = NoList
    /\ list_out = <<>>

NextLeaf == Evaluate

SpecLeaf == InitLeaf /\ [][NextLeaf]_vars

\* The numbers of the versions whose components are all numeric.
VersionNumbers ==
    [text \in VersionTexts \ {"1.5a"} |->
        IF text = "1.2" THEN <<1, 2>>
        ELSE IF text = "1.10" THEN <<1, 10>>
        ELSE IF text = "1.4" THEN <<1, 4>>
        ELSE IF text = "1.4.2" THEN <<1, 4, 2>>
        ELSE <<1, 5>>]

\* Component-wise order of two lists of numbers; a strict prefix is smaller.
RECURSIVE NumbersLess(_, _)
NumbersLess(v, w) ==
    IF w = <<>> THEN FALSE
    ELSE IF v = <<>> THEN TRUE
    ELSE IF Head(v) # Head(w) THEN Head(v) < Head(w)
    ELSE NumbersLess(Tail(v), Tail(w))

\* The one check of dep_in.
Leaf == dep_in.checks[1]

\* C12: a gameDependency check is satisfied iff game_version is not below
\* the check's version, components compared one by one and numeric
\* components as numbers ("1.2" is below "1.10", "1.4" is below "1.4.2");
\* without a game_version the check is satisfied.
C12_VersionCheck ==
    (/\ pc = "evaluated" /\ Leaf.tag = "gameDependency"
     /\ Leaf.version \in DOMAIN VersionNumbers
     /\ game_version.given => game_version.text \in DOMAIN VersionNumbers)
    => /\ dep_out.raised = "" <=>
             \/ ~game_version.given
             \/ ~NumbersLess(VersionNumbers[game_version.text],
                             VersionNumbers[Leaf.version])
       /\ dep_out.raised # "" =>
             dep_out = Outcome("MissingDependency",
                               Miss("Version", Leaf.version, game_version.text), 1)

\* Game version 1.2 was checked against a required 1.10 and found too old.
C12_Witness ==
    /\ pc = "evaluated"
    /\ Leaf = GameDep("1.10") /\ game_version = Version("1.2")
    /\ dep_out.raised = "MissingDependency"

\* The value dict(flag_states) gives the flag, "" when it has no such key.
FlatFlag(flag) ==
    IF flag \in DOMAIN FlagStates(flag_maps) THEN FlagStates(flag_maps)[flag] ELSE ""

\* C13: a flagDependency check is satisfied iff the flattened flag state
\* gives the flag the expected value, a flag no layer defines reading as "":
\* an unset flag satisfies the value "" and no other.
C13_FlagCheck ==
    (pc = "evaluated" /\ Leaf.tag = "flagDependency") =>
        /\ dep_out.raised = "" <=> FlatFlag(Leaf.flag) = Leaf.value
        /\ dep_out.raised # "" =>
              dep_out = Outcome("MissingDependency",
                                Miss("Flag", Leaf.value, FlatFlag(Leaf.flag)), 1)
        /\ ~ChainContains(flag_maps, Leaf.flag) =>
              (dep_out.raised = "" <=> Leaf.value = "")

\* A flag set in the base layer and overridden in front of it was checked
\* against the front value.
C13_Witness ==
    /\ pc = "evaluated" /\ Leaf = FlagDep("UseX", "no")
    /\ Len(flag_maps) = 2
    /\ flag_maps[1] = DictSet(EmptyDict, "UseX", "no")
    /\ flag_maps[2] = DictSet(EmptyDict, "UseX", "yes")
    /\ dep_out.raised = ""

\* C33: a lone fileDependency check with state Missing is satisfied iff the
\* file is not under dest, one with state Active or Inactive iff the file is
\* under dest, and without a dest every such check is satisfied.
C33_FileCheck ==
    (pc = "evaluated" /\ Len(dep_in.checks) = 1 /\ Leaf.tag = "fileDependency") =>
        /\ ~dest.given => dep_out.raised = ""
        /\ (dest.given /\ Leaf.state = "Missing") =>
              (dep_out.raised = "" <=> Leaf.file \notin dest.exists)
        /\ (dest.given /\ Leaf.state \in {"Active", "Inactive"}) =>
              (dep_out.raised = "" <=> Leaf.file \in dest.exists)
        /\ dep_out.raised # "" =>
              /\ dep_out.raised = "MissingDependency"
              /\ dep_out.missed.type = "File"
              /\ dep_out.missed.actual = Leaf.file

\* An Inactive check of a file that is under dest was found satisfied.
C33_Witness ==
    /\ pc = "evaluated" /\ dep_in.checks = <<FileDep("x.esp", "Inactive")>>
    /\ dest = Dest({"x.esp"})
    /\ dep_out.raised = ""

-----------------------------------------------------------------------------
(* Back navigation and the layers of the two stores                        *)

\* A step of the run that processes a {'previous_step': True} answer.
BackStep == pc = "sent" /\ answer.given /\ answer.previous_step = "True"
                /\ pc' # "sent"

\* C1: after priming, a back request pops exactly one layer of flag_states
\* and one of collected_files when an accepted answer is still on the
\* stores, and pops nothing when none is; in that case the step presented
\* next is the one presented before, so only the cursor was rewound.
C1_BackPopsOneLayerEach ==
    [][BackStep =>
          IF hist.live # <<>>
          THEN /\ flag_maps' = Tail(flag_maps)
               /\ file_maps' = Tail(file_maps)
          ELSE /\ flag_maps' = flag_maps
               /\ file_maps' = file_maps
               /\ index' = index
               /\ pc' = "step"]_vars

\* A back request right after an accepted answer, with another answer below.
C1_Witness ==
    /\ pc = "step"
    /\ hist.last = "back" /\ hist.prev = "answer"
    /\ hist.live # <<>>
    /\ Len(flag_maps) = 1 + Len(hist.live)

\* C2: after priming flag_states keeps at least one layer and
\* collected_files keeps its initial layer and, in front of it, the layer of
\* requiredInstallFiles, whatever answers and back requests were processed.
C2_BaseLayersKept ==
    hist.primed =>
        /\ Len(flag_maps) >= 1
        /\ Len(file_maps) >= 2
        /\ file_maps[Len(file_maps)] = EmptyDict
        /\ file_maps[Len(file_maps) - 1] =
               FileDictLoop(conf.requiredInstallFiles, 1, EmptyDict)
        /\ \A i \in 1..Len(conf.requiredInstallFiles) :
               ChainContains(<<NestedDict(file_maps)["0"]>>,
                             conf.requiredInstallFiles[i].source)

\* Two back requests were processed with no answer on the stores.
C2_Witness ==
    /\ pc = "step"
    /\ hist.backs = 2 /\ Len(hist.presented) = 3
    /\ hist.live = <<>>
    /\ conf.requiredInstallFiles # <<>>

\* C3: a back request right after an accepted answer at step s leaves
\* flag_states and collected_files as they were before that answer, and the
\* step presented next is step s again.
C3_UndoRoundTrip ==
    (hist.last = "back" /\ hist.prev = "answer") =>
        /\ pc \in {"step", "sent"}
        /\ FlagStates(flag_maps) = hist.snap.flags
        /\ CollectedFiles(file_maps) = hist.snap.files
        /\ index = hist.snap.index
        /\ hist.presented[Len(hist.presented)] = hist.snap.index

\* The answer that set UseX to "no" at the second step was undone.
C3_Witness ==
    /\ pc = "step"
    /\ hist.last = "back" /\ hist.prev = "answer"
    /\ conf = ConfThreeSteps /\ hist.snap.index = 1
    /\ ChainGet(flag_maps, "UseX", "") = "yes"

-----------------------------------------------------------------------------
(* Priming and visibility                                                  *)

\* moduleDependencies as _assert_dependencies sees it when the generator starts.
ModuleOutcome ==
    AssertDependencies(conf.moduleDependencies, <<EmptyDict>>, dest, game_version)

\* C4: when moduleDependencies is not satisfied at priming, priming raises
\* MissingDependency with the kind and the expected and actual values (for
\* 1.5 against 1.4.2: Version, "1.5", "1.4.2"), the generator has ended, no
\* step was or will be yielded, and requiredInstallFiles was not collected.
C4_PrimingFailure ==
    /\ (ModuleOutcome.raised # "" /\ pc # "start") =>
          /\ pc = "raised"
          /\ ~hist.primed
          /\ hist.error = Out("MissingDependency", ModuleOutcome.missed)
          /\ out.kind \in {"MissingDependency", "StopIteration"}
          /\ hist.presented = <<>> /\ step_dict = NoStep
          /\ file_maps = <<EmptyDict>>
    /\ (game_version = Version("1.4.2") /\ pc # "start") =>
          hist.error = Out("MissingDependency", Miss("Version", "1.5", "1.4.2"))

\* Priming failed with required files configured, and a later pull was made.
C4_Witness ==
    /\ pc = "raised"
    /\ game_version = Version("1.4.2")
    /\ conf.requiredInstallFiles # <<>>
    /\ out.kind = "StopIteration"

\* The visibility of the step at index i against the present flag_states.
Visible(i) ==
    AssertDependencies(OrderedList(conf.installSteps)[i + 1].visible,
                       flag_maps, dest, game_version).raised = ""

\* C5: a step handed to the caller has its visible dependencies satisfied by
\* flag_states as they are at that moment, every step passed over since the
\* scan began has them unsatisfied, the step that asks for UseX == "yes" is
\* not presented without it, and a MissingDependency ends the generator at
\* priming only.
C5_PresentedStepVisible ==
    /\ pc = "step" =>
          /\ Visible(index)
          /\ \A j \in (hist.scan_from + 1)..(index - 1) : ~Visible(j)
    /\ pc = "done" =>
          \A j \in (hist.scan_from + 1)..(Len(OrderedList(conf.installSteps)) - 1) :
              ~Visible(j)
    /\ (pc = "step" /\ conf = ConfThreeSteps /\ index = 1) =>
          ChainGet(flag_maps, "UseX", "") = "yes"
    /\ (pc = "raised" /\ hist.error.kind = "MissingDependency") => ~hist.primed

\* The second step was passed over because UseX was not set.
C5_Witness ==
    /\ pc = "step"
    /\ conf = ConfThreeSteps
    /\ index = 2 /\ hist.scan_from = 0
    /\ ~ChainContains(flag_maps, "UseX")

-----------------------------------------------------------------------------
(* The files of the selected plugins                                       *)

\* InstallerFomod.Run: the (destination, source) pairs of collected_files
\* made into a dict.  Two sources with one destination leave either.
InstallFiles(collected) ==
    LET dests == {collected[x] : x \in DOMAIN collected}
    IN {g \in [dests -> DOMAIN collected] : \A y \in dests : collected[g[y]] = y}

\* Every plugin of the configuration's steps.
AllPlugins ==
    LET steps == conf.installSteps.children
        groups(s) == steps[s].optionalFileGroups.children
    IN UNION {UNION {{groups(s)[g].plugins.children[k] :
                         k \in 1..Len(groups(s)[g].plugins.children)} :
                     g \in 1..Len(groups(s))} :
              s \in 1..Len(steps)}

\* The plugins of the normalized answers whose layers are on the stores.
LivePlugins ==
    UNION {{hist.live[i].plugins[k] : k \in 1..Len(hist.live[i].plugins)} :
           i \in 1..Len(hist.live)}

-----------------------------------------------------------------------------
(* Validation and normalization of an answer                               *)

\* A step of the run that processes an answer other than a back request.
ForwardStep == pc = "sent" /\ answer.given /\ answer.previous_step # "True"
                   /\ pc' # "sent"

\* The groups of the step the answer is for.
StepGroups == {step_dict.groups[i] : i \in 1..Len(step_dict.groups)}

\* The plugin ids the caller listed for the group.
CallerIds(group) ==
    {Chosen(answer.groups, group.id)[i] :
        i \in 1..Len(Chosen(answer.groups, group.id))}

\* The plugins of the group with one of these types.
PluginsOfType(group, types) ==
    {group.plugins[k] : k \in {j \in 1..Len(group.plugins) :
                                  group.plugins[j].type \in types}}

PluginIds(plugins) == {p.id : p \in plugins}

AllTypes == {"Required", "Recommended", "Optional", "CouldBeUsable", "NotUsable"}

\* Every key of the answer is a group of the step and every id listed for a
\* group is a plugin of it.
KnownIds ==
    /\ DOMAIN answer.groups \subseteq {g.id : g \in StepGroups}
    /\ \A g \in StepGroups : CallerIds(g) \subseteq PluginIds(PluginsOfType(g, AllTypes))

\* The selection count rule of the group's type, on what the caller listed.
CountOk(group) ==
    /\ group.type = "SelectExactlyOne" => Len(Chosen(answer.groups, group.id)) = 1
    /\ group.type = "SelectAtMostOne" => Len(Chosen(answer.groups, group.id)) <= 1
    /\ group.type = "SelectAtLeastOne" => Len(Chosen(answer.groups, group.id)) >= 1

\* The caller listed a NotUsable plugin of the group.
PicksNotUsable(group) ==
    CallerIds(group) \cap PluginIds(PluginsOfType(group, {"NotUsable"})) # {}

\* C14: the selection counts are checked on what the caller listed, before
\* Required plugins are added: an answer is accepted only if every
\* SelectExactlyOne group lists exactly one id, every SelectAtMostOne group at
\* most one and every SelectAtLeastOne group at least one; otherwise the
\* answer is rejected, with a ValueError when its ids are all known.
C14_CountsBeforeForcedAddition ==
    [][ForwardStep =>
          /\ hist'.last = "answer" => \A g \in StepGroups : CountOk(g)
          /\ (\E g \in StepGroups : ~CountOk(g)) =>
                /\ pc' = "raised" /\ hist'.last = "error"
                /\ KnownIds => hist'.error.kind = "ValueError"
          /\ (/\ KnownIds
              /\ \A g \in StepGroups : CountOk(g) /\ ~PicksNotUsable(g))
             => hist'.last = "answer"]_vars

\* A SelectExactlyOne group with a Required plugin was answered with no
\* choice, and the answer was rejected.
C14_Witness ==
    /\ pc = "raised" /\ hist.last = "error"
    /\ hist.error.kind = "ValueError"
    /\ conf = ConfKinds("SelectExactlyOne")
    /\ answer.given /\ answer.groups = EmptyDict

\* The elements of a list.
Elems(seq) == {seq[i] : i \in 1..Len(seq)}

\* The ids of the group's Required plugins.
RequiredIds(group) == PluginIds(PluginsOfType(group, {"Required"}))

\* Whether every file and flag of the plugin is in the given front layers.
InLayers(plugin, file_layer, flag_layer) ==
    /\ \A i \in 1..Len(plugin.files) :
          \E p \in DOMAIN file_layer :
              /\ plugin.files[i].source \in DOMAIN file_layer[p]
              /\ file_layer[p][plugin.files[i].source] = plugin.files[i].destination
    /\ \A i \in 1..Len(plugin.conditionFlags) :
          /\ plugin.conditionFlags[i].name \in DOMAIN flag_layer
          /\ flag_layer[plugin.conditionFlags[i].name] = plugin.conditionFlags[i].text

\* C15: after an accepted answer every Required plugin of every group of the
\* step is in the normalized selection and its files and flags are in the
\* new layers, whether or not the caller listed it or its group.
C15_RequiredForced ==
    [][(ForwardStep /\ hist'.last = "answer") =>
          \A g \in StepGroups : \A id \in RequiredIds(g) :
              /\ id \in Elems(hist'.live[1].ids)
              /\ InLayers(id_dict[id], file_maps'[1], flag_maps'[1])]_vars

\* A SelectExactlyOne group was answered with its Optional plugin alone and
\* the normalized selection holds two plugins.
C15_Witness ==
    /\ pc = "done" /\ hist.last = "answer"
    /\ conf = ConfKinds("SelectExactlyOne")
    /\ Len(hist.live[1].ids) = 2
    /\ \A gid \in DOMAIN answer.groups : Len(answer.groups[gid]) = 1

\* C16: an answer that lists a NotUsable plugin is rejected, whatever the
\* type of the group, with a ValueError when its ids are all known, and
\* nothing of it is collected.
C16_NotUsableRejected ==
    [][(ForwardStep /\ \E g \in StepGroups : PicksNotUsable(g)) =>
          /\ pc' = "raised" /\ hist'.last = "error"
          /\ KnownIds => hist'.error.kind = "ValueError"
          /\ flag_maps' = flag_maps /\ file_maps' = file_maps]_vars

\* A SelectAny group, which has no count rule, was answered with its
\* NotUsable plugin.
C16_Witness ==
    /\ pc = "raised" /\ hist.last = "error"
    /\ hist.error.kind = "ValueError"
    /\ conf = ConfKinds("SelectAny")

\* C17: after an accepted answer the normalized selection holds every plugin
\* of every SelectAll group of the step, and the files and flags of each are
\* in the new layers, whatever the caller listed for the group.
C17_SelectAllForced ==
    [][(ForwardStep /\ hist'.last = "answer") =>
          \A g \in {x \in StepGroups : x.type = "SelectAll"} :
              \A id \in PluginIds(PluginsOfType(g, AllTypes)) :
                  /\ id \in Elems(hist'.live[1].ids)
                  /\ InLayers(id_dict[id], file_maps'[1], flag_maps'[1])]_vars

\* The answer listed nothing and both plugins of the SelectAll group were
\* collected.
C17_Witness ==
    /\ pc = "done" /\ hist.last = "answer"
    /\ conf = ConfTwoGroups
    /\ answer.groups = EmptyDict
    /\ Len(hist.live[1].ids) = 2

\* The place of a plugin id in the presented step: its group's, its own.
GroupIndex(id) ==
    CHOOSE gi \in 1..Len(step_dict.groups) :
        id \in PluginIds(PluginsOfType(step_dict.groups[gi], AllTypes))

PluginIndex(id) ==
    CHOOSE k \in 1..Len(step_dict.groups[GroupIndex(id)].plugins) :
        step_dict.groups[GroupIndex(id)].plugins[k].id = id

Before(a, b) ==
    \/ GroupIndex(a) < GroupIndex(b)
    \/ GroupIndex(a) = GroupIndex(b) /\ PluginIndex(a) < PluginIndex(b)

\* The ids the normalized selection of the group has to hold.
Expected(group) ==
    IF group.type = "SelectAll" THEN PluginIds(PluginsOfType(group, AllTypes))
    ELSE CallerIds(group) \cup RequiredIds(group)

\* C18: the normalized answer lists the ids that were chosen or forced, each
\* once, the groups in the order of the presented step and the ids of a
\* group in the order of its presented plugins, however the caller listed
\* them.
C18_NormalizedOrder ==
    [][(ForwardStep /\ hist'.last = "answer") =>
          /\ Elems(hist'.live[1].ids) = UNION {Expected(g) : g \in StepGroups}
          /\ \A i, j \in 1..Len(hist'.live[1].ids) :
                i < j => Before(hist'.live[1].ids[i], hist'.live[1].ids[j])]_vars

\* The caller listed two plugins of a group against their presented order and
\* the answer was accepted.
C18_Witness ==
    /\ pc = "done" /\ hist.last = "answer"
    /\ conf = ConfTwoGroups
    /\ \E gid \in DOMAIN answer.groups :
          /\ Len(answer.groups[gid]) = 2
          /\ Before(answer.groups[gid][2], answer.groups[gid][1])
    /\ Len(hist.live[1].ids) > 2

\* C19: once an exception has left the generator it has ended: the step that
\* raised pushed no layer, every later pull gives StopIteration and no step,
\* and flag_states and collected_files stay as they were, so that
\* conditionalFileInstalls is never collected.
C19_FailedAbsorbing ==
    [][/\ (hist.error.kind = "" /\ hist'.error.kind # "") =>
             /\ pc' = "raised"
             /\ flag_maps' = flag_maps /\ file_maps' = file_maps
       /\ hist.error.kind # "" =>
             /\ pc' = "raised" /\ out'.kind = "StopIteration"
             /\ flag_maps' = flag_maps /\ file_maps' = file_maps
             /\ hist' = hist]_vars

\* An answer was accepted, the next was rejected, and a later pull was made.
C19_Witness ==
    /\ pc = "raised" /\ hist.error.kind = "ValueError"
    /\ out.kind = "StopIteration"
    /\ conf = ConfThreeSteps
    /\ hist.live # <<>>
    /\ Len(file_maps) = 2 + Len(hist.live)

\* C20: an answer with previous_step: True is a back request whatever else
\* it holds: its group entries are not validated, nothing is raised, no
\* layer is pushed, and a step is presented next.
C20_BackSupersedes ==
    [][BackStep =>
          /\ pc' = "step" /\ hist'.last = "back"
          /\ hist'.error.kind = ""
          /\ Len(flag_maps') <= Len(flag_maps)
          /\ Len(file_maps') <= Len(file_maps)
          /\ hist'.live = IF hist.live # <<>> THEN Tail(hist.live) ELSE hist.live]_vars

\* A back request that also held an entry for a key that is no group.
C20_Witness ==
    /\ pc = "step" /\ hist.last = "back"
    /\ answer.previous_step = "True"
    /\ ForeignId \in DOMAIN answer.groups

-----------------------------------------------------------------------------
(* conditionalFileInstalls                                                 *)

\* The patterns of conditionalFileInstalls, in document order.
Patterns == conf.conditionalFileInstalls

\* The patterns whose dependencies the given flag_states meet.
Satisfied(maps) ==
    {i \in 1..Len(Patterns) :
        AssertDependencies(Patterns[i].dependencies, maps, dest, game_version).raised = ""}

\* The number of patterns up to pattern i that are met.
RankIn(sat, i) == Cardinality({j \in sat : j <= i})

\* The layer _collect_files makes of a files list without priorities.
PlainLayer(files) ==
    [p \in {"0" : i \in 1..Len(files)} |->
        [x \in {files[i].source : i \in 1..Len(files)} |->
            files[CHOOSE i \in 1..Len(files) :
                      /\ files[i].source = x
                      /\ \A j \in (i + 1)..Len(files) : files[j].source # x].destination]]

\* The layers behind the front n.
Behind(maps, n) == SubSeq(maps, n + 1, Len(maps))

\* C23: the patterns of conditionalFileInstalls are looked at in the one pass
\* that ends the generator, when no step after the last presented is
\* visible: every pattern whose dependencies the final flag_states meet puts
\* one layer of its files in front of collected_files, a later pattern in
\* front of an earlier one; a pattern they do not meet puts none and raises
\* nothing; flag_states holds the layers of the answers and no other.  No
\* such layer is on the store before, and none is added afterwards.
C23_ConditionalInstallsLast ==
    [][/\ (pc # "done" /\ pc' = "done") =>
             /\ \A j \in (index + 1)..(Len(OrderedList(conf.installSteps)) - 1) :
                   AssertDependencies(OrderedList(conf.installSteps)[j + 1].visible,
                                      flag_maps', dest, game_version).raised # ""
             /\ Len(flag_maps') = 1 + Len(hist'.live)
             /\ Len(file_maps') = Cardinality(Satisfied(flag_maps')) + 2 + Len(hist'.live)
             /\ \A i \in Satisfied(flag_maps') :
                   file_maps'[Cardinality(Satisfied(flag_maps'))
                              - RankIn(Satisfied(flag_maps'), i) + 1]
                       = PlainLayer(Patterns[i].files)
             /\ ForwardStep =>
                   Behind(file_maps', Cardinality(Satisfied(flag_maps')) + 1) = file_maps
       /\ (ForwardStep /\ hist'.last = "answer") => pc' \in {"step", "done"}
       /\ pc' \in {"primed", "step", "sent"} => Len(file_maps') = 2 + Len(hist'.live)
       /\ pc = "done" => (pc' = "done" /\ file_maps' = file_maps /\ flag_maps' = flag_maps)]_vars

\* The run ended with the first pattern unmet and the second met, and a
\* later pull was made.
C23_Witness ==
    /\ pc = "done" /\ conf = ConfThreeSteps
    /\ Satisfied(flag_maps) = {2}
    /\ file_maps[1] = PlainLayer(Patterns[2].files)
    /\ Len(file_maps) = 3 + Len(hist.live)
    /\ out.kind = "StopIteration" /\ hist.last = "answer"

-----------------------------------------------------------------------------
(* The layers of an accepted answer                                        *)

\* The file items of the plugins, each with its place: the plugin's place in
\* the selection and the item's place in the plugin's files.
FilesAt(plugins) ==
    UNION {{[at |-> <<i, k>>, item |-> plugins[i].files[k]] :
               k \in 1..Len(plugins[i].files)} : i \in 1..Len(plugins)}

FlagsAt(plugins) ==
    UNION {{[at |-> <<i, k>>, item |-> plugins[i].conditionFlags[k]] :
               k \in 1..Len(plugins[i].conditionFlags)} : i \in 1..Len(plugins)}

Later(a, b) == a[1] > b[1] \/ (a[1] = b[1] /\ a[2] > b[2])

\* The last of the placed items that meet the condition.
LastOf(placed) == CHOOSE f \in placed : \A g \in placed : ~Later(g.at, f.at)

Prio(item) == IF item.priority = "" THEN "0" ELSE item.priority

\* The file layer of a selection: for every priority, the sources of that
\* priority with their destinations, the last item winning.
FileLayerOf(plugins) ==
    [p \in {Prio(f.item) : f \in FilesAt(plugins)} |->
        [x \in {f.item.source : f \in {g \in FilesAt(plugins) : Prio(g.item) = p}} |->
            LastOf({f \in FilesAt(plugins) :
                       Prio(f.item) = p /\ f.item.source = x}).item.destination]]

\* The flag layer of a selection, the last item winning.
FlagLayerOf(plugins) ==
    [n \in {f.item.name : f \in FlagsAt(plugins)} |->
        LastOf({f \in FlagsAt(plugins) : f.item.name = n}).item.text]

\* The conditionalFileInstalls layers in front of the store, when it ended.
CondLayers(state, maps) ==
    IF state = "done" THEN Cardinality(Satisfied(maps)) ELSE 0

\* C24: an accepted answer puts one layer in front of flag_states and one in
\* front of collected_files (behind the conditionalFileInstalls layers when
\* the run ends with it), made of the condition flags and the files of the
\* plugins of the normalized selection, all groups together, and appends the
\* index of the answered step to previous_index.
C24_AcceptedAnswerPushes ==
    [][(ForwardStep /\ hist'.last = "answer") =>
          /\ flag_maps' = <<FlagLayerOf(hist'.live[1].plugins)>> \o flag_maps
          /\ Behind(file_maps', CondLayers(pc', flag_maps'))
                = <<FileLayerOf(hist'.live[1].plugins)>> \o file_maps
          /\ hist'.live[1].plugins
                = [i \in 1..Len(hist'.live[1].ids) |-> id_dict[hist'.live[1].ids[i]]]
          /\ previous_index' = Append(previous_index, index)
          /\ hist.presented[Len(hist.presented)] = index]_vars

\* Three plugins of two groups were selected, and their three files make
\* the one new layer.
C24_Witness ==
    /\ pc = "done" /\ hist.last = "answer"
    /\ conf = ConfTwoGroups
    /\ Len(hist.live[1].plugins) = 3
    /\ Len(file_maps) = 3 /\ Len(flag_maps) = 2
    /\ Cardinality(DOMAIN file_maps[1]["0"]) = 3
    /\ previous_index = <<0, 0>>

-----------------------------------------------------------------------------
(* The points where the generator is suspended                             *)

\* C25 as stated: the generator is suspended after priming or at a presented
\* step only, never between receiving an input and presenting the next step
\* or ending.
C25_TwoKindsOfSuspension == pc \in {"start", "primed", "step", "done", "raised"}

\* C25, amended: the generator is suspended at three kinds of points: after
\* priming, at a presented step, and at the bare yield right after it
\* received the input for that step.  Only the resumption at a presented
\* step hands it an input, which it keeps and leaves unprocessed until it is
\* resumed again; that resumption and the one after priming take no input
\* and run to the next presented step or to the end.
C25_ThreeKindsOfSuspension ==
    [][/\ pc' \in {"start", "primed", "step", "sent", "done", "raised"}
       /\ (pc = "start" /\ pc' # pc) => pc' \in {"primed", "raised"}
       /\ (pc = "primed" /\ pc' # pc) =>
             (pc' \in {"step", "done", "raised"} /\ answer' = answer)
       /\ (pc = "step" /\ pc' # pc) =>
             /\ pc' = "sent" /\ out'.kind = "None"
             /\ UNCHANGED <<flag_maps, file_maps, index, previous_index, step_dict,
                            id_dict, hist>>
       /\ (pc = "sent" /\ pc' # pc) =>
             (pc' \in {"step", "done", "raised"} /\ answer'.groups = answer.groups)
       /\ pc \in {"done", "raised"} => pc' = pc]_vars

\* send(answer) has returned None at the bare yield with a valid answer that
\* is not yet applied.
C25_Witness ==
    /\ pc = "sent" /\ out.kind = "None"
    /\ answer.given /\ answer.previous_step # "True"
    /\ \A g \in StepGroups : CountOk(g) /\ ~PicksNotUsable(g)
    /\ KnownIds
    /\ hist.live = <<>> /\ Len(flag_maps) = 1

-----------------------------------------------------------------------------
(* The step presented after a backward request                             *)

\* Whether the step at index i is visible against the given flag_states.
VisibleWith(i, maps) ==
    AssertDependencies(OrderedList(conf.installSteps)[i + 1].visible,
                       maps, dest, game_version).raised = ""

\* The layers of flag_states once the answer given last is undone.
Undone(maps) == IF Len(maps) > 1 THEN Tail(maps) ELSE maps

\* C26: a backward request presents the step of the answer given last among
\* those not undone, and the first visible step when there is none.  The scan
\* that finds it starts at that step and checks visibility against
\* flag_states without the layer of the undone answer, which are the
\* flag_states the step is presented with.
C26_BackPresentsLastAnswered ==
    [][BackStep =>
          /\ pc' = "step"
          /\ flag_maps' = Undone(flag_maps)
          /\ hist'.presented = Append(hist.presented, index')
          /\ hist'.scan_from = IF hist.live # <<>> THEN hist.live[1].index - 1 ELSE -1
          /\ hist.live # <<>> => index' = hist.live[1].index
          /\ VisibleWith(index', Undone(flag_maps))
          /\ \A j \in (hist'.scan_from + 1)..(index' - 1) :
                ~VisibleWith(j, Undone(flag_maps))]_vars

\* The first step was answered with the plugin that sets UseX, the second
\* step was presented, and a backward request presented the first again with
\* UseX unset, the second step no longer being visible.
C26_Witness ==
    /\ pc = "step" /\ hist.last = "back"
    /\ conf = ConfThreeSteps
    /\ hist.presented = <<0, 1, 0>>
    /\ index = 0 /\ ~ChainContains(flag_maps, "UseX")
    /\ ~VisibleWith(1, flag_maps)

-----------------------------------------------------------------------------
(* The types of the plugins of a presented step                            *)

\* The patterns of the plugin element's dependencyType that the given
\* flag_states meet.
Met(el, maps) ==
    {i \in 1..Len(el.typeDescriptor.patterns) :
        AssertDependencies(el.typeDescriptor.patterns[i].dependencies,
                           maps, dest, game_version).raised = ""}

\* The type the plugin element is to have against the given flag_states.
KindOf(el, maps) ==
    IF el.typeDescriptor.type # "" THEN el.typeDescriptor.type
    ELSE IF Met(el, maps) = {} THEN el.typeDescriptor.defaultType
    ELSE el.typeDescriptor.patterns[
             CHOOSE i \in Met(el, maps) : \A j \in Met(el, maps) : i <= j].type

\* The plugin elements of the presented step that have a dependencyType.
Dependent == {id \in DOMAIN id_dict : id_dict[id].typeDescriptor.type = ""}

\* C27 as stated: a pattern of a dependencyType that is not met ends the
\* generator, so no step is presented with a plugin whose first pattern is
\* not met.
C27_TypeFailureFatal ==
    pc = "step" => \A id \in Dependent : 1 \in Met(id_dict[id], flag_maps)

\* C27, amended: a MissingDependency raised by a pattern of a dependencyType
\* is caught and the pattern passed over; the step is presented.  Once
\* primed, the generator ends with an exception only while it handles an
\* answer, and never with a MissingDependency.
C27_TypeFailureCaught ==
    /\ (pc = "raised" /\ hist.primed) =>
          (hist.last = "error" /\ hist.error.kind # "MissingDependency")
    /\ pc = "step" =>
          \A g \in StepGroups : \A p \in PluginsOfType(g, AllTypes) :
              (p.id \in Dependent /\ Met(id_dict[p.id], flag_maps) = {}) =>
                  p.type = id_dict[p.id].typeDescriptor.defaultType

\* The second step is presented with neither flag set: both patterns of its
\* plugin raised and it has the default type.
C27_Witness ==
    /\ pc = "step" /\ conf = ConfTyped /\ index = 1
    /\ Dependent # {}
    /\ \A id \in Dependent : Met(id_dict[id], flag_maps) = {}
    /\ step_dict.groups[1].plugins[1].type = "Optional"

\* C28: the type of a plugin of a presented step is the explicit type of
\* its typeDescriptor when it has one, else the type of the first pattern, in
\* document order, whose dependencies flag_states meet, else the defaultType.
C28_ResolvedType ==
    pc = "step" =>
        \A g \in StepGroups : \A p \in PluginsOfType(g, AllTypes) :
            p.type = KindOf(id_dict[p.id], flag_maps)

\* Both patterns are met, and the plugin has the type of the first.
C28_Witness ==
    /\ pc = "step" /\ conf = ConfTyped /\ index = 1
    /\ \A id \in Dependent : Met(id_dict[id], flag_maps) = {1, 2}
    /\ step_dict.groups[1].plugins[1].type = "Required"

\* C29: whenever a step is yielded, for the first time or again, the types
\* of its plugins are those flag_states give at that moment, whatever types
\* the step was yielded with before.
C29_TypesResolvedAnew ==
    [][(pc' = "step" /\ pc # "step") =>
          /\ Len(hist'.shown) = Len(hist'.presented)
          /\ hist'.shown[Len(hist'.shown)] = TypesOf(step_dict')
          /\ \A gi \in 1..Len(step_dict'.groups) :
                \A k \in 1..Len(step_dict'.groups[gi].plugins) :
                    hist'.shown[Len(hist'.shown)][gi][k]
                        = KindOf(id_dict'[step_dict'.groups[gi].plugins[k].id],
                                 flag_maps')]_vars

\* The second step was yielded with its plugin Required, and after a
\* backward request and another answer to the first step it is yielded with
\* the plugin NotUsable.
C29_Witness ==
    /\ pc = "step" /\ conf = ConfTyped
    /\ hist.presented = <<0, 1, 0, 1>>
    /\ hist.shown[2] = <<<<"Required">>>>
    /\ hist.shown[4] = <<<<"NotUsable">>>>
    /\ step_dict.groups[1].plugins[1].type = "NotUsable"

-----------------------------------------------------------------------------
(* The identifiers of a presented step                                     *)

\* The ids of the groups and plugins of a step.
IdsOf(step) ==
    {step.groups[gi].id : gi \in 1..Len(step.groups)}
    \cup UNION {PluginIds(PluginsOfType(step.groups[gi], AllTypes)) :
                   gi \in 1..Len(step.groups)}

\* The number of groups and plugins of a step.
SizeOf(step) ==
    Cardinality({<<gi, k>> \in (1..Len(step.groups)) \X (0..3) :
                    k <= Len(step.groups[gi].plugins)})

\* C30: the ids of a yielded step are as many as its groups and plugins and
\* none of them was drawn before (the ids drawn before are those up to
\* uuid_count); an answer that holds a key or an id that is not of the step
\* presented, as one made of the ids of an earlier presentation does, is not
\* applied: the generator ends and no layer is pushed.
C30_FreshIds ==
    [][/\ (pc' = "step" /\ pc # "step") =>
             /\ Cardinality(IdsOf(step_dict')) = SizeOf(step_dict')
             /\ \A id \in IdsOf(step_dict') : id > uuid_count /\ id <= uuid_count'
             /\ DOMAIN id_dict' \subseteq IdsOf(step_dict')
       /\ pc = "step" => IdsOf(step_dict) \subseteq 1..uuid_count
       /\ (ForwardStep /\ ~KnownIds) =>
             /\ pc' = "raised"
             /\ flag_maps' = flag_maps /\ file_maps' = file_maps]_vars

\* The first step was presented again after a backward request and answered
\* with the ids of its first presentation.
C30_Witness ==
    /\ pc = "raised" /\ conf = ConfTyped
    /\ hist.presented = <<0, 1, 0>>
    /\ answer.given /\ answer.groups \in StaleEntries(step_dict)
    /\ hist.error.kind = "StopIteration"
    /\ Len(flag_maps) = 1 /\ Len(file_maps) = 2

-----------------------------------------------------------------------------
(* Progress without backward requests                                      *)

StepsOf(config) == OrderedList(config.installSteps)

\* C34: as long as no backward request was made, the indices of the steps
\* presented strictly increase, so no step is presented twice and no more
\* answers are accepted than conf has steps; the pull after a valid forward
\* answer presents a step of a higher index or ends the generator with the
\* conditionalFileInstalls layers on collected_files.
C34_ForwardProgress ==
    [][/\ hist'.backs = 0 =>
             /\ \A i, j \in 1..Len(hist'.presented) :
                   i < j => hist'.presented[i] < hist'.presented[j]
             /\ \A i \in 1..Len(hist'.presented) :
                   hist'.presented[i] \in 0..(Len(StepsOf(conf)) - 1)
             /\ Len(hist'.live) <= Len(hist'.presented)
             /\ Len(hist'.live) <= Len(StepsOf(conf))
       /\ (ForwardStep /\ hist.backs = 0 /\ hist'.last = "answer") =>
             \/ pc' = "step" /\ index' > index /\ index' < Len(StepsOf(conf))
                             /\ hist'.presented = Append(hist.presented, index')
             \/ /\ pc' = "done" /\ out'.kind = "StopIteration"
                /\ hist'.presented = hist.presented
                /\ Len(file_maps')
                     = Cardinality(Satisfied(flag_maps')) + 2 + Len(hist'.live)]_vars

\* Three steps were presented and answered one after the other, and the
\* generator ended.
C34_Witness ==
    /\ pc = "done" /\ conf = ConfThreeSteps
    /\ hist.backs = 0
    /\ hist.presented = <<0, 1, 2>>
    /\ Len(hist.live) = 3

-----------------------------------------------------------------------------
(* The numbers of layers of the two stores                                 *)

\* C35: from the first yield until the loop over the steps is left, whatever
\* answers and backward requests were processed, collected_files has one
\* layer more than flag_states, and flag_states has one layer more than there
\* are accepted answers not undone; the latter holds at the end as well.
C35_LayerParity ==
    /\ pc \in {"primed", "step", "sent"} =>
          /\ Len(file_maps) = Len(flag_maps) + 1
          /\ Len(flag_maps) - 1 = Len(hist.live)
    /\ pc = "done" =>
          /\ Len(flag_maps) - 1 = Len(hist.live)
          /\ Len(file_maps) >= Len(flag_maps) + 1

\* Two answers were accepted and a backward request undid the second: the
\* flags are those the second answer was given with.
C35_Witness ==
    /\ pc = "step" /\ hist.last = "back" /\ hist.prev = "answer"
    /\ Len(hist.live) = 1
    /\ hist.snap.flags = FlagStates(flag_maps)
    /\ Len(flag_maps) = 2 /\ Len(file_maps) = 3

-----------------------------------------------------------------------------
(* previous_index and the layers of the answers                            *)

\* C36: while the generator is in its loop or has left it, the last entries
\* of previous_index are the indices of the steps whose accepted answers are
\* not undone, the most recent last: with such a layer on the stores
\* previous_index is not empty and ends with the index of the step that
\* pushed the front layer.  A backward request that pops a layer scans from
\* just before that step and presents it, and a scan from before the first
\* step follows a backward request only when no layer of an answer is left.
C36_StackMatchesLayers ==
    [][/\ pc' \in {"step", "sent", "done"} =>
             /\ Len(previous_index') >= Len(hist'.live)
             /\ \A k \in 1..Len(hist'.live) :
                   previous_index'[Len(previous_index') - k + 1] = hist'.live[k].index
       /\ (BackStep /\ hist.live # <<>>) =>
             /\ flag_maps' = Tail(flag_maps) /\ file_maps' = Tail(file_maps)
             /\ hist'.scan_from = previous_index[Len(previous_index)] - 1
             /\ index' = hist.live[1].index
             /\ previous_index' = SubSeq(previous_index, 1, Len(previous_index) - 1)
       /\ (BackStep /\ hist'.scan_from = -1) => hist'.live = <<>>]_vars

\* The first and the second step were answered and, at the third, a backward
\* request undid the answer of the second, which is presented again.
C36_Witness ==
    /\ pc = "step" /\ hist.last = "back"
    /\ conf = ConfThreeSteps
    /\ hist.presented = <<0, 1, 2, 1>>
    /\ Len(hist.live) = 1 /\ hist.live[1].index = 0
    /\ previous_index = <<0, 0>>
    /\ index = 1

-----------------------------------------------------------------------------
(* When an answer takes effect                                             *)

\* Whether the answer breaks a selection count or picks a NotUsable plugin.
Invalid == \E g \in StepGroups : ~CountOk(g) \/ PicksNotUsable(g)

\* C37: send(answer) returns None and leaves flag_states and collected_files
\* as they were, whatever the answer; the pull after it applies the answer:
\* it raises the ValueError of an invalid answer, puts the layers of a valid
\* one on the two stores and, when it ends the generator, the
\* conditionalFileInstalls layers in front of them in the same call.
C37_EffectsAtNextPull ==
    [][/\ (pc = "step" /\ pc' # pc) =>
             /\ pc' = "sent" /\ out'.kind = "None"
             /\ FlagStates(flag_maps') = FlagStates(flag_maps)
             /\ CollectedFiles(file_maps') = CollectedFiles(file_maps)
             /\ hist'.error = hist.error /\ hist'.live = hist.live
       /\ (ForwardStep /\ KnownIds /\ Invalid) =>
             /\ pc' = "raised" /\ out'.kind = "ValueError"
             /\ hist.error.kind = ""
       /\ (ForwardStep /\ hist'.last = "answer") =>
             /\ Len(flag_maps') = Len(flag_maps) + 1
             /\ Len(file_maps') = Len(file_maps) + 1 + CondLayers(pc', flag_maps')
             /\ file_maps'[CondLayers(pc', flag_maps') + 1]
                   = FileLayerOf(hist'.live[1].plugins)
       /\ (pc # "done" /\ pc' = "done") =>
             /\ pc = "sent" \/ pc = "primed"
             /\ out'.kind = "StopIteration"
             /\ Len(file_maps) = 2 + Len(hist.live)]_vars

\* The answer of the last step is at the bare yield, with its files and the
\* files of the met pattern not yet in collected_files.
C37_Witness ==
    /\ pc = "sent" /\ conf = ConfThreeSteps
    /\ index = 2 /\ answer.given /\ answer.previous_step # "True"
    /\ KnownIds
    /\ \A g \in StepGroups : CountOk(g) /\ ~PicksNotUsable(g)
    /\ ChainContains(flag_maps, "UseX")
    /\ "x.txt" \notin DOMAIN CollectedFiles(file_maps)
    /\ "d.txt" \notin DOMAIN CollectedFiles(file_maps)
    /\ "e.txt" \notin DOMAIN CollectedFiles(file_maps)

-----------------------------------------------------------------------------
(* An answer with an id that is not of the presented step                  *)

\* C38: an answer with a key that is no group id of the presented step, or
\* with an id that is no plugin id of its group, ends the generator with an
\* exception that the pull gives its caller and that is not the
\* StopIteration of a generator that has returned, and puts no layer on
\* either store.
C38_UnknownIdReported ==
    [][(ForwardStep /\ ~KnownIds) =>
          /\ pc' = "raised"
          /\ out'.kind \notin {"StopIteration", "None", "step"}
          /\ flag_maps' = flag_maps /\ file_maps' = file_maps]_vars

-----------------------------------------------------------------------------
(* Two plugins of one answer with the same flag or the same file           *)

\* Whether no plugin of the selection after plugin i, and no item of plugin i
\* after item k, sets the flag of that item.
LastFlag(sel, i, k) ==
    /\ \A k2 \in (k + 1)..Len(sel[i].conditionFlags) :
          sel[i].conditionFlags[k2].name # sel[i].conditionFlags[k].name
    /\ \A j \in (i + 1)..Len(sel) : \A k2 \in 1..Len(sel[j].conditionFlags) :
          sel[j].conditionFlags[k2].name # sel[i].conditionFlags[k].name

\* The same for the source and the priority of a file item.
LastFile(sel, i, k) ==
    /\ \A k2 \in (k + 1)..Len(sel[i].files) :
          \/ sel[i].files[k2].source # sel[i].files[k].source
          \/ Prio(sel[i].files[k2]) # Prio(sel[i].files[k])
    /\ \A j \in (i + 1)..Len(sel) : \A k2 \in 1..Len(sel[j].files) :
          \/ sel[j].files[k2].source # sel[i].files[k].source
          \/ Prio(sel[j].files[k2]) # Prio(sel[i].files[k])

\* The layers pushed hold what the last plugin gives, for the selection sel.
LastWins(sel, file_layer, flag_layer) ==
    /\ \A i \in 1..Len(sel) : \A k \in 1..Len(sel[i].conditionFlags) :
          LastFlag(sel, i, k) =>
              /\ sel[i].conditionFlags[k].name \in DOMAIN flag_layer
              /\ flag_layer[sel[i].conditionFlags[k].name] = sel[i].conditionFlags[k].text
    /\ \A i \in 1..Len(sel) : \A k \in 1..Len(sel[i].files) :
          LastFile(sel, i, k) =>
              /\ Prio(sel[i].files[k]) \in DOMAIN file_layer
              /\ sel[i].files[k].source \in DOMAIN file_layer[Prio(sel[i].files[k])]
              /\ file_layer[Prio(sel[i].files[k])][sel[i].files[k].source]
                    = sel[i].files[k].destination

\* C39: the plugins of an accepted answer are collected in the order of the
\* presented step, group by group and plugin by plugin, and where two of
\* them set the same flag, or map the same source at the same priority, the
\* layer pushed holds what the later of them gives.
C39_LaterPluginWins ==
    [][(ForwardStep /\ hist'.last = "answer") =>
          /\ \A i, j \in 1..Len(hist'.live[1].ids) :
                i < j => Before(hist'.live[1].ids[i], hist'.live[1].ids[j])
          /\ \A i \in 1..Len(hist'.live[1].ids) :
                hist'.live[1].plugins[i] = id_dict[hist'.live[1].ids[i]]
          /\ LastWins(hist'.live[1].plugins,
                      file_maps'[CondLayers(pc', flag_maps') + 1], flag_maps'[1])]_vars

\* The caller listed B before A: A and B were collected in that order and
\* the layers hold the flag and the file of B.
C39_Witness ==
    /\ pc = "done" /\ conf = ConfShared /\ hist.last = "answer"
    /\ \E gid \in DOMAIN answer.groups :
          /\ Len(answer.groups[gid]) = 2
          /\ Before(answer.groups[gid][2], answer.groups[gid][1])
    /\ Len(hist.live[1].plugins) = 2
    /\ hist.live[1].plugins[1].name = "A" /\ hist.live[1].plugins[2].name = "B"
    /\ flag_maps[1] = DictSet(EmptyDict, "UseX", "yes")
    /\ Len(file_maps) = 4
    /\ file_maps[2]["0"]["s.txt"] = "data/b.txt"

-----------------------------------------------------------------------------
(* The files of conditionalFileInstalls against those of the steps         *)

\* Whether no met pattern after pattern i, and no item of pattern i after
\* item k, maps the source of that item at its priority.
LastPattern(sat, i, k) ==
    /\ \A k2 \in (k + 1)..Len(Patterns[i].files) :
          \/ Patterns[i].files[k2].source # Patterns[i].files[k].source
          \/ Prio(Patterns[i].files[k2]) # Prio(Patterns[i].files[k])
    /\ \A j \in sat : j > i => \A k2 \in 1..Len(Patterns[j].files) :
          \/ Patterns[j].files[k2].source # Patterns[i].files[k].source
          \/ Prio(Patterns[j].files[k2]) # Prio(Patterns[i].files[k])

\* C40: when the generator ends, the layers of the met patterns are in front
\* of every layer of the steps and of requiredInstallFiles: what the last met
\* pattern that maps a source at a priority gives is what collected_files
\* has for them in that bucket, whatever the layers behind hold, and what the
\* property returns for the source when there is no other bucket.
C40_PatternFilesInFront ==
    [][(pc # "done" /\ pc' = "done") =>
          /\ Behind(file_maps', Cardinality(Satisfied(flag_maps')))
                = IF ForwardStep THEN <<file_maps'[Cardinality(Satisfied(flag_maps')) + 1]>>
                                      \o file_maps
                  ELSE file_maps
          /\ \A i \in Satisfied(flag_maps') : \A k \in 1..Len(Patterns[i].files) :
                LastPattern(Satisfied(flag_maps'), i, k) =>
                    /\ NestedGetItem(file_maps', Prio(Patterns[i].files[k]))
                                    [Patterns[i].files[k].source]
                          = Patterns[i].files[k].destination
                    /\ ChainKeys(file_maps') = {Prio(Patterns[i].files[k])} =>
                          CollectedFiles(file_maps')[Patterns[i].files[k].source]
                              = Patterns[i].files[k].destination]_vars

\* B and C were selected and both patterns are met: the file of the second
\* pattern is the one kept, in front of the first pattern's, of C's and of
\* the required one.
C40_Witness ==
    /\ pc = "done" /\ conf = ConfShared /\ hist.last = "answer"
    /\ Satisfied(flag_maps) = {1, 2}
    /\ Len(file_maps) = 5
    /\ file_maps[2]["0"]["s.txt"] = "data/p1.txt"
    /\ file_maps[3]["0"]["s.txt"] = "data/c.txt"
    /\ file_maps[4]["0"]["s.txt"] = "data/req.txt"
    /\ CollectedFiles(file_maps) = DictSet(EmptyDict, "s.txt", "data/p2.txt")

=============================================================================
